---------------------------- MODULE Spec2Model ----------------------------
(***************************************************************************)
(* CareerGini backend (haystack-service / ai-service): the chat router,    *)
(* the /chat and /chat/stream handlers, the Redis response cache, the      *)
(* per-user PersonaManager and the persona extraction of the resume        *)
(* advisor, modelled as state machines.                                    *)
(*                                                                         *)
(* Python strings are sequences of one-character strings, so that lower(), *)
(* strip(), replace() and the substring test `kw in text` are computed the *)
(* way the interpreter computes them.  None is the one-element sequence    *)
(* <<"None">>, which no string equals (its element is not one character).  *)
(***************************************************************************)
EXTENDS Integers, Sequences, FiniteSets, TLC

None == <<"None">>

\* ----------------------------------------------------------------------
\* str methods
\* ----------------------------------------------------------------------
UpperToLower == [A |-> "a", B |-> "b", C |-> "c", D |-> "d", E |-> "e", F |-> "f", G |-> "g", H |-> "h", I |-> "i", J |-> "j", K |-> "k", L |-> "l", M |-> "m", N |-> "n", O |-> "o", P |-> "p", Q |-> "q", R |-> "r", S |-> "s", T |-> "t", U |-> "u", V |-> "v", W |-> "w", X |-> "x", Y |-> "y", Z |-> "z"]

LowerChar(c) == IF c \in DOMAIN UpperToLower THEN UpperToLower[c] ELSE c

\* str.lower()
Lower(s) == [i \in 1..Len(s) |-> LowerChar(s[i])]

Whitespace == {" ", "\n", "\t", "\r"}

RECURSIVE LStrip(_)
LStrip(s) == IF s # <<>> /\ Head(s) \in Whitespace THEN LStrip(Tail(s)) ELSE s

RECURSIVE RStrip(_)
RStrip(s) == IF s # <<>> /\ s[Len(s)] \in Whitespace THEN RStrip(SubSeq(s, 1, Len(s) - 1)) ELSE s

\* str.strip()
Strip(s) == RStrip(LStrip(s))

\* str.replace(c, "") for a one-character c
RemoveChar(s, c) == SelectSeq(s, LAMBDA x : x # c)

\* the substring test `kw in s`
Contains(s, kw) == \E i \in 1..(Len(s) - Len(kw) + 1) : SubSeq(s, i, i + Len(kw) - 1) = kw

\* any(kw in s for kw in kws), kws a sequence of keywords
AnyIn(s, kws) == \E j \in 1..Len(kws) : Contains(s, kws[j])

\* ----------------------------------------------------------------------
\* string literals of the source
\* ----------------------------------------------------------------------
A_profile == <<"p", "r", "o", "f", "i", "l", "e">>
A_skills_gap == <<"s", "k", "i", "l", "l", "s", "_", "g", "a", "p">>
A_job_search == <<"j", "o", "b", "_", "s", "e", "a", "r", "c", "h">>
A_resume == <<"r", "e", "s", "u", "m", "e">>
A_learning == <<"l", "e", "a", "r", "n", "i", "n", "g">>
A_supervisor == <<"s", "u", "p", "e", "r", "v", "i", "s", "o", "r">>
A_chat == <<"c", "h", "a", "t">>
M_review == <<"R", "e", "v", "i", "e", "w", " ", "m", "y", " ", "r", "e", "s", "u", "m", "e", ",", " ", "f", "i", "n", "d", " ", "a", " ", "j", "o", "b">>
M_hello == <<"h", "e", "l", "l", "o">>
M_hello_sp == <<" ", "H", "e", "l", "l", "o", " ">>
M_gap == <<"g", "a", "p">>
R_quoted == <<" ", "'", "R", "e", "s", "u", "m", "e", "'", "\n">>
R_banana == <<"n", "/", "a">>

\* ----------------------------------------------------------------------
\* Router: HaystackWorkflow keyword match and SupervisorAgent.run
\* ----------------------------------------------------------------------
\* self.agents of HaystackWorkflow (its keys)
Agents == {A_profile, A_skills_gap, A_job_search, A_resume, A_learning}

\* valid_agents of SupervisorAgent.run
valid_agents == {A_profile, A_skills_gap, A_job_search, A_resume, A_learning}

\* the if/elif chain of HaystackWorkflow.ainvoke on the lowercased message,
\* over ["resume", "cv", "review my"], ["job", "apply", "search"],
\* ["learn", "course", "certif"] and ["skills", "gap", "missing"]; None when
\* no keyword matches
AinvokeKeywordRoute(last_message) ==
    IF AnyIn(last_message, <<<<"r", "e", "s", "u", "m", "e">>, <<"c", "v">>, <<"r", "e", "v", "i", "e", "w", " ", "m", "y">>>>)
    THEN A_resume
    ELSE IF AnyIn(last_message, <<<<"j", "o", "b">>, <<"a", "p", "p", "l", "y">>, <<"s", "e", "a", "r", "c", "h">>>>)
    THEN A_job_search
    ELSE IF AnyIn(last_message, <<<<"l", "e", "a", "r", "n">>, <<"c", "o", "u", "r", "s", "e">>, <<"c", "e", "r", "t", "i", "f">>>>)
    THEN A_learning
    ELSE IF AnyIn(last_message, <<<<"s", "k", "i", "l", "l", "s">>, <<"g", "a", "p">>, <<"m", "i", "s", "s", "i", "n", "g">>>>)
    THEN A_skills_gap
    ELSE None

\* the chain with the job_search test ahead of the resume test
AstreamKeywordRoute_JobFirst(last_message) ==
    IF AnyIn(last_message, <<<<"j", "o", "b">>, <<"a", "p", "p", "l", "y">>, <<"s", "e", "a", "r", "c", "h">>>>)
    THEN A_job_search
    ELSE IF AnyIn(last_message, <<<<"r", "e", "s", "u", "m", "e">>, <<"c", "v">>, <<"r", "e", "v", "i", "e", "w", " ", "m", "y">>>>)
    THEN A_resume
    ELSE IF AnyIn(last_message, <<<<"l", "e", "a", "r", "n">>, <<"c", "o", "u", "r", "s", "e">>, <<"c", "e", "r", "t", "i", "f">>>>)
    THEN A_learning
    ELSE IF AnyIn(last_message, <<<<"s", "k", "i", "l", "l", "s">>, <<"g", "a", "p">>, <<"m", "i", "s", "s", "i", "n", "g">>>>)
    THEN A_skills_gap
    ELSE None

\* the same chain as written in HaystackWorkflow.astream_events
AstreamKeywordRoute(last_message) ==
    IF AnyIn(last_message, <<<<"r", "e", "s", "u", "m", "e">>, <<"c", "v">>, <<"r", "e", "v", "i", "e", "w", " ", "m", "y">>>>)
    THEN A_resume
    ELSE IF AnyIn(last_message, <<<<"j", "o", "b">>, <<"a", "p", "p", "l", "y">>, <<"s", "e", "a", "r", "c", "h">>>>)
    THEN A_job_search
    ELSE IF AnyIn(last_message, <<<<"l", "e", "a", "r", "n">>, <<"c", "o", "u", "r", "s", "e">>, <<"c", "e", "r", "t", "i", "f">>>>)
    THEN A_learning
    ELSE IF AnyIn(last_message, <<<<"s", "k", "i", "l", "l", "s">>, <<"g", "a", "p">>, <<"m", "i", "s", "s", "i", "n", "g">>>>)
    THEN A_skills_gap
    ELSE None

\* the keywords dict of SupervisorAgent.run, in insertion order
SupervisorKeywords == <<
    \* ["resume", "cv", "ats", "application"]
    [agent |-> A_resume, words |-> <<<<"r", "e", "s", "u", "m", "e">>, <<"c", "v">>, <<"a", "t", "s">>, <<"a", "p", "p", "l", "i", "c", "a", "t", "i", "o", "n">>>>],
    \* ["skill", "learn", "technology", "programming", "language"]
    [agent |-> A_skills_gap, words |-> <<<<"s", "k", "i", "l", "l">>, <<"l", "e", "a", "r", "n">>, <<"t", "e", "c", "h", "n", "o", "l", "o", "g", "y">>, <<"p", "r", "o", "g", "r", "a", "m", "m", "i", "n", "g">>, <<"l", "a", "n", "g", "u", "a", "g", "e">>>>],
    \* ["job", "hire", "interview", "salary", "company"]
    [agent |-> A_job_search, words |-> <<<<"j", "o", "b">>, <<"h", "i", "r", "e">>, <<"i", "n", "t", "e", "r", "v", "i", "e", "w">>, <<"s", "a", "l", "a", "r", "y">>, <<"c", "o", "m", "p", "a", "n", "y">>>>],
    \* ["course", "tutorial", "certification", "study", "class"]
    [agent |-> A_learning, words |-> <<<<"c", "o", "u", "r", "s", "e">>, <<"t", "u", "t", "o", "r", "i", "a", "l">>, <<"c", "e", "r", "t", "i", "f", "i", "c", "a", "t", "i", "o", "n">>, <<"s", "t", "u", "d", "y">>, <<"c", "l", "a", "s", "s">>>>],
    \* ["career", "transition", "path", "switch"]
    [agent |-> A_profile, words |-> <<<<"c", "a", "r", "e", "e", "r">>, <<"t", "r", "a", "n", "s", "i", "t", "i", "o", "n">>, <<"p", "a", "t", "h">>, <<"s", "w", "i", "t", "c", "h">>>>] >>

\* response.content.strip().lower().replace("'", "").replace('"', "")
CleanDecision(content) == RemoveChar(RemoveChar(Lower(Strip(content)), "'"), "\"")

\* the for/else loop over keywords.items(): first entry with a word in the
\* lowercased message, else "profile"
KeywordFallback(message_lower) ==
    LET hits == {k \in 1..Len(SupervisorKeywords) : AnyIn(message_lower, SupervisorKeywords[k].words)}
    IN  IF hits = {} THEN A_profile
        ELSE SupervisorKeywords[CHOOSE k \in hits : \A j \in hits : k <= j].agent

\* SupervisorAgent.run on a message and the outcome of `await self.llm.ainvoke`:
\* outcome.raised means the call raised; the call is not inside a try, so the
\* exception leaves run.  Otherwise the result is the active_agent it returns.
SupervisorRun(last_message, outcome) ==
    IF outcome.raised THEN [raised |-> TRUE, active_agent |-> None]
    ELSE LET decision == CleanDecision(outcome.content)
         IN  [raised |-> FALSE,
              active_agent |-> IF decision \in valid_agents THEN decision
                               ELSE KeywordFallback(Lower(last_message))]

\* `if not active_agent_name or active_agent_name not in self.agents` of ainvoke
AinvokeValidate(name) == IF name = None \/ name = <<>> \/ name \notin Agents THEN A_profile ELSE name

\* the texts the model may reply to the supervisor prompt
SupervisorReplies == {R_quoted, R_banana}

\* outcomes of one model call: a reply, or a raised transport error / timeout
Raised == [raised |-> TRUE, content |-> <<>>]

SupervisorOutcomes == {[raised |-> FALSE, content |-> c] : c \in SupervisorReplies} \cup {Raised}


\* ----------------------------------------------------------------------
\* ResponseCache over a Redis server
\* ----------------------------------------------------------------------
\* hashlib.md5(...).hexdigest(): a fixed-length digest, injective on the
\* strings of the model (collisions aside)
Md5(s) == <<"md5">> \o s

\* _generate_key that hashes the stripped query without lowercasing it
_generate_key_CaseKept(agent, query) == [prefix |-> "response:", agent |-> agent, query_hash |-> Md5(Strip(query))]

\* ResponseCache._generate_key: f"response:{agent}:{query_hash}".  The digest
\* has a fixed length and no ':', so the key determines agent and digest; the
\* record keeps the two parts.
_generate_key(agent, query) == [prefix |-> "response:", agent |-> agent, query_hash |-> Md5(Strip(Lower(query)))]

\* Redis server commands on the key space `store` (key -> [val, ttl])
RedisGet(store, key) == IF key \in DOMAIN store THEN store[key].val ELSE None

\* a SETEX that drops every other key
RedisSetex_Purge(store, key, ttl, val) == [k \in {key} |-> [val |-> val, ttl |-> ttl]]

RedisSetex(store, key, ttl, val) == [k \in DOMAIN store \cup {key} |-> IF k = key THEN [val |-> val, ttl |-> ttl] ELSE store[k]]

RedisKeys(store) == {k \in DOMAIN store : k.prefix = "response:"}

RedisDelete(store, keys) == [k \in DOMAIN store \ keys |-> store[k]]

\* one unit of time passes on the server: every ttl drops by one and the
\* entries whose ttl reaches 0 are gone
RedisTick(store) == [k \in {x \in DOMAIN store : store[x].ttl > 1} |-> [val |-> store[k].val, ttl |-> store[k].ttl - 1]]

EmptyStore == [k \in {} |-> None]

\* ResponseCache.__init__: self.redis is the client when ping() succeeds
\* (TRUE), None otherwise (FALSE)
CacheConstruct(reachable) == reachable

\* get without its try/except: a failing server call raises out of get
CacheGet_NoTry(redis, store, ok, agent, query) ==
    IF ~redis THEN [ret |-> None, raised |-> FALSE]
    ELSE IF ~ok THEN [ret |-> None, raised |-> TRUE]
    ELSE LET cached == RedisGet(store, _generate_key(agent, query))
         IN  IF cached # None /\ cached # <<>> THEN [ret |-> cached, raised |-> FALSE]
             ELSE [ret |-> None, raised |-> FALSE]

\* ResponseCache.get; ok says whether the server answers this call.
\* ret is the returned value, raised whether an exception leaves get.
CacheGet(redis, store, ok, agent, query) ==
    IF ~redis THEN [ret |-> None, raised |-> FALSE]
    ELSE IF ~ok THEN [ret |-> None, raised |-> FALSE]
    ELSE LET cached == RedisGet(store, _generate_key(agent, query))
         IN  IF cached # None /\ cached # <<>> THEN [ret |-> cached, raised |-> FALSE]
             ELSE [ret |-> None, raised |-> FALSE]

\* set with an expiry one unit too long
CacheSet_LongTtl(redis, store, ok, ttl, agent, query, response) ==
    IF ~redis THEN [store |-> store, raised |-> FALSE]
    ELSE IF ~ok THEN [store |-> store, raised |-> FALSE]
    ELSE [store |-> RedisSetex(store, _generate_key(agent, query), ttl + 1, response), raised |-> FALSE]

\* ResponseCache.set: the store afterwards
CacheSet(redis, store, ok, ttl, agent, query, response) ==
    IF ~redis THEN [store |-> store, raised |-> FALSE]
    ELSE IF ~ok THEN [store |-> store, raised |-> FALSE]
    ELSE [store |-> RedisSetex(store, _generate_key(agent, query), ttl, response), raised |-> FALSE]

\* ResponseCache.clear
CacheClear(redis, store, ok) ==
    IF ~redis THEN [store |-> store, raised |-> FALSE]
    ELSE IF ~ok THEN [store |-> store, raised |-> FALSE]
    ELSE LET keys == RedisKeys(store)
         IN  [store |-> IF keys # {} THEN RedisDelete(store, keys) ELSE store, raised |-> FALSE]

\* json.dumps(response_data) of the chat handlers: the JSON text as a token
\* sequence; the field markers are single tokens, the string values their
\* characters
JsonDumps(d) == <<"{\"response\":">> \o d.response \o <<",\"agent\":">> \o d.agent \o <<",\"suggested_prompts\":[]}">>

IndexOf(s, tok) == IF \E i \in 1..Len(s) : s[i] = tok THEN CHOOSE i \in 1..Len(s) : s[i] = tok /\ \A j \in 1..(i - 1) : s[j] # tok ELSE 0

\* json.loads of a cached text: ok = FALSE stands for json.JSONDecodeError
JsonLoads(s) ==
    LET a == IndexOf(s, ",\"agent\":")
    IN  IF Len(s) >= 3 /\ s[1] = "{\"response\":" /\ a > 1 /\ s[Len(s)] = ",\"suggested_prompts\":[]}"
        THEN [ok |-> TRUE, data |-> [response |-> SubSeq(s, 2, a - 1), agent |-> SubSeq(s, a + 1, Len(s) - 1)]]
        ELSE [ok |-> FALSE, data |-> [response |-> <<>>, agent |-> <<>>]]

\* ----------------------------------------------------------------------
\* string literals of persona_manager.py, main.py and the inputs
\* ----------------------------------------------------------------------
S_Python == <<"P", "y", "t", "h", "o", "n">>
S_python == <<"p", "y", "t", "h", "o", "n">>
S_Go == <<"G", "o">>
G_cto == <<"B", "e", " ", "C", "T", "O">>
N_jane == <<"J", "a", "n", "e">>
N_qa == <<"Q", "A">>
T_dev == <<"D", "e", "v">>
T_lead == <<"J", "o", "b", " ", "L", "e", "a", "d">>
L_context == <<"C", "O", "N", "T", "E", "X", "T", ":", "\n">>
L_user_message == <<"\n", "\n", "U", "S", "E", "R", " ", "M", "E", "S", "S", "A", "G", "E", ":", "\n">>
L_user_profile == <<"U", "S", "E", "R", " ", "P", "R", "O", "F", "I", "L", "E", ":", "\n", "N", "a", "m", "e", ":", " ">>
L_title == <<"\n", "T", "i", "t", "l", "e", ":", " ">>
L_location == <<"\n", "L", "o", "c", "a", "t", "i", "o", "n", ":", " ">>
L_summary == <<"S", "u", "m", "m", "a", "r", "y", ":", " ">>
L_top_skills == <<"T", "o", "p", " ", "S", "k", "i", "l", "l", "s", ":", " ">>
L_goals == <<"C", "a", "r", "e", "e", "r", " ", "G", "o", "a", "l", "s", ":", " ">>
L_work == <<"W", "o", "r", "k", " ", "E", "x", "p", "e", "r", "i", "e", "n", "c", "e", ":", "\n">>
L_dash == <<" ", " ", "-", " ">>
L_at == <<" ", "a", "t", " ">>
L_open == <<" ", "(">>
L_close_colon == <<")", ":", " ">>
L_education == <<"E", "d", "u", "c", "a", "t", "i", "o", "n", ":", "\n">>
L_from == <<" ", "f", "r", "o", "m", " ">>
L_close == <<")">>
L_target_roles == <<"T", "a", "r", "g", "e", "t", " ", "R", "o", "l", "e", "s", ":", " ">>
L_User == <<"U", "s", "e", "r">>
L_Professional == <<"P", "r", "o", "f", "e", "s", "s", "i", "o", "n", "a", "l">>
L_Unknown == <<"U", "n", "k", "n", "o", "w", "n">>
L_comma == <<",", " ">>
L_nl == <<"\n">>
L_hybrid == <<"h", "y", "b", "r", "i", "d">>
I_update_goals == <<"u", "p", "d", "a", "t", "e", "_", "g", "o", "a", "l", "s">>
I_update_skills == <<"u", "p", "d", "a", "t", "e", "_", "s", "k", "i", "l", "l", "s">>
I_update_preferences == <<"u", "p", "d", "a", "t", "e", "_", "p", "r", "e", "f", "e", "r", "e", "n", "c", "e", "s">>
SRC_resume == <<"r", "e", "s", "u", "m", "e">>
SRC_chat == <<"c", "h", "a", "t">>
U_1 == <<"u", "1">>
U_2 == <<"u", "2">>
R_ok == <<"S", "u", "r", "e", ".">>

\* ----------------------------------------------------------------------
\* PersonaManager
\* ----------------------------------------------------------------------
\* Python truthiness of a str / list / None value
Truthy(v) == v # None /\ v # <<>>

\* the expression `a or b`
Or(a, b) == IF Truthy(a) THEN a ELSE b

\* dict.get(k) on a dict modelled as a function over its keys
Get(d, k) == IF k \in DOMAIN d THEN d[k] ELSE None

\* dict.get(k, []) and `d.get(k) or []` for list-valued keys: a missing key
\* and an empty list are both falsy
GetList(d, k) == IF k \in DOMAIN d THEN d[k] ELSE <<>>

\* `a or b` for list values
OrList(a, b) == IF a # <<>> THEN a ELSE b

\* dict.get(k, "")
GetStr(d, k) == IF k \in DOMAIN d THEN d[k] ELSE <<>>

\* the contents of one file on disk
NoFile == [kind |-> "absent", profile |-> <<>>]

CorruptFile == [kind |-> "corrupt", profile |-> <<>>]

\* json.dump(self.profile, f): every value of a profile is a str, int, list
\* or dict, so the document read back by json.load is the profile written
JsonFile(p) == [kind |-> "json", profile |-> <<p>>]

\* the default empty schema of _load_profile; now is datetime.now()
DefaultProfile(now) == [identity |-> [full_name |-> <<>>, professional_title |-> <<>>, summary |-> <<>>, email |-> <<>>, phone |-> <<>>, location |-> <<>>, linkedin |-> <<>>, portfolio_url |-> <<>>], skills |-> <<>>, experience |-> <<>>, projects |-> <<>>, education |-> <<>>, goals |-> <<>>, job_preferences |-> [target_roles |-> <<>>, target_locations |-> <<>>, remote_preference |-> L_hybrid, min_salary |-> 0], meta |-> [created_at |-> now, updated_at |-> now, sources |-> <<>>]]

\* PersonaManager._load_profile: the file's document when it exists and
\* parses, the default schema otherwise
_load_profile(file, now) == IF file.kind = "json" THEN file.profile[1] ELSE DefaultProfile(now)

\* PersonaManager._add_source
_add_source(p, source_name) ==
    IF \E i \in 1..Len(p.meta.sources) : p.meta.sources[i] = source_name THEN p
    ELSE [p EXCEPT !.meta.sources = Append(@, source_name)]

\* outcomes of the open/json.dump of save: written, open() raised (file
\* untouched), or the write raised after open() truncated the file
IoOutcomes == {"ok", "open_fails", "write_fails"}

\* save that dumps the profile before stamping updated_at
save_DumpBeforeStamp(p, file, now, io) ==
    [profile |-> [p EXCEPT !.meta.updated_at = now],
     file |-> IF io = "ok" THEN JsonFile(p) ELSE IF io = "open_fails" THEN file ELSE CorruptFile]

\* PersonaManager.save: the in-memory profile and the file afterwards; the
\* except clause logs the error and save returns normally
save(p, file, now, io) ==
    LET q == [p EXCEPT !.meta.updated_at = now]
    IN  [profile |-> q,
         file |-> IF io = "ok" THEN JsonFile(q) ELSE IF io = "open_fails" THEN file ELSE CorruptFile]

\* `if v: self.profile["identity"][k] = v`
SetIf(old, v) == IF Truthy(v) THEN v ELSE old

\* ingest_resume_data that assigns the title and the experience without
\* testing them
IngestMerge_Always(p, resume_data) ==
    LET full_name == Or(Get(resume_data, "full_name"), Get(resume_data, "name"))
        title == Or(Get(resume_data, "professional_title"), Get(resume_data, "title"))
        new_skills == OrList(GetList(resume_data, "top_skills"), GetList(resume_data, "skills"))
        experience == OrList(GetList(resume_data, "experience_highlights"), GetList(resume_data, "experience"))
        education == GetList(resume_data, "education")
        projects == GetList(resume_data, "projects")
        q == [p EXCEPT !.identity.full_name = SetIf(@, full_name),
                       !.identity.professional_title = IF title = None THEN <<>> ELSE title,
                       !.identity.email = SetIf(@, Get(resume_data, "email")),
                       !.identity.phone = SetIf(@, Get(resume_data, "phone")),
                       !.identity.location = SetIf(@, Get(resume_data, "location")),
                       !.identity.linkedin = SetIf(@, Get(resume_data, "linkedin")),
                       !.identity.portfolio_url = SetIf(@, Get(resume_data, "portfolio_url")),
                       !.identity.summary = SetIf(@, Get(resume_data, "summary")),
                       !.skills = IF new_skills # <<>> THEN new_skills ELSE @,
                       !.experience = experience,
                       !.education = IF education # <<>> THEN education ELSE @,
                       !.projects = IF projects # <<>> THEN projects ELSE @]
    IN  _add_source(q, SRC_resume)

\* PersonaManager.ingest_resume_data up to the call of save()
IngestMerge(p, resume_data) ==
    LET full_name == Or(Get(resume_data, "full_name"), Get(resume_data, "name"))
        title == Or(Get(resume_data, "professional_title"), Get(resume_data, "title"))
        new_skills == OrList(GetList(resume_data, "top_skills"), GetList(resume_data, "skills"))
        experience == OrList(GetList(resume_data, "experience_highlights"), GetList(resume_data, "experience"))
        education == GetList(resume_data, "education")
        projects == GetList(resume_data, "projects")
        q == [p EXCEPT !.identity.full_name = SetIf(@, full_name),
                       !.identity.professional_title = SetIf(@, title),
                       !.identity.email = SetIf(@, Get(resume_data, "email")),
                       !.identity.phone = SetIf(@, Get(resume_data, "phone")),
                       !.identity.location = SetIf(@, Get(resume_data, "location")),
                       !.identity.linkedin = SetIf(@, Get(resume_data, "linkedin")),
                       !.identity.portfolio_url = SetIf(@, Get(resume_data, "portfolio_url")),
                       !.identity.summary = SetIf(@, Get(resume_data, "summary")),
                       !.skills = IF new_skills # <<>> THEN new_skills ELSE @,
                       !.experience = IF experience # <<>> THEN experience ELSE @,
                       !.education = IF education # <<>> THEN education ELSE @,
                       !.projects = IF projects # <<>> THEN projects ELSE @]
    IN  _add_source(q, SRC_resume)

\* PersonaManager.ingest_resume_data
ingest_resume_data(p, file, resume_data, now, io) == save(IngestMerge(p, resume_data), file, now, io)

\* set(xs) of a list
SetOf(xs) == {xs[i] : i \in 1..Len(xs)}

\* list(s) of a set: the iteration order of a set of str is not defined by
\* the language, so every order is possible
ListsOf(S) == {xs \in [1..Cardinality(S) -> S] : SetOf(xs) = S}

\* a set holding the new entries only
ChatUnion_NewOnly(p, intent, data) ==
    IF intent = I_update_goals THEN SetOf(GetList(data, "goals"))
    ELSE IF intent = I_update_skills THEN SetOf(GetList(data, "skills"))
    ELSE {}

\* the sets built by update_from_chat before list(): current entries plus new
ChatUnion(p, intent, data) ==
    IF intent = I_update_goals THEN SetOf(p.goals) \cup SetOf(GetList(data, "goals"))
    ELSE IF intent = I_update_skills THEN SetOf(p.skills) \cup SetOf(GetList(data, "skills"))
    ELSE {}

\* PersonaManager.update_from_chat up to the call of save(); order is the
\* list produced by list(current_goals) / list(current_skills)
ChatMerge(p, intent, data, order) ==
    LET q == IF intent = I_update_goals THEN [p EXCEPT !.goals = order]
             ELSE IF intent = I_update_skills THEN [p EXCEPT !.skills = order]
             ELSE IF intent = I_update_preferences
                  THEN [p EXCEPT !.job_preferences = [k \in DOMAIN @ |-> IF k \in DOMAIN data THEN data[k] ELSE @[k]]]
                  ELSE p
    IN  _add_source(q, SRC_chat)

\* update_from_chat that merges into the profile re-read from the file
update_from_chat_Reload(p, file, intent, data, order, now, io) == save(ChatMerge(_load_profile(file, now), intent, data, order), file, now, io)

\* PersonaManager.update_from_chat
update_from_chat(p, file, intent, data, order, now, io) == save(ChatMerge(p, intent, data, order), file, now, io)

\* xs[:n]
Take(xs, n) == SubSeq(xs, 1, IF Len(xs) < n THEN Len(xs) ELSE n)

\* sep.join(xs)
RECURSIVE Join(_, _)
Join(xs, sep) == IF xs = <<>> THEN <<>> ELSE IF Len(xs) = 1 THEN xs[1] ELSE xs[1] \o sep \o Join(Tail(xs), sep)

\* the slice limits of get_context_for_llm
SummaryLimit == 300

SkillsLimit == 20

ExperienceLimit == 4

AchievementLimit == 120

EducationLimit == 2

\* one line of exp_lines
ExpLine(exp) == L_dash \o Or(Get(exp, "role"), GetStr(exp, "title")) \o L_at \o GetStr(exp, "company") \o L_open \o GetStr(exp, "duration") \o L_close_colon \o Take(Or(Get(exp, "key_achievement"), GetStr(exp, "description")), AchievementLimit)

\* one line of edu_lines
EduLine(edu) == L_dash \o GetStr(edu, "degree") \o L_from \o GetStr(edu, "school") \o L_open \o GetStr(edu, "year") \o L_close

\* PersonaManager.get_context_for_llm; resume_persona is the document of
\* persona.json, the empty dict when the file is missing or unreadable
get_context_for_llm(p, resume_persona) ==
    LET full_name == Or(Or(Or(p.identity.full_name, Get(resume_persona, "full_name")), Get(resume_persona, "name")), L_User)
        title == Or(Or(Or(p.identity.professional_title, Get(resume_persona, "professional_title")), Get(resume_persona, "title")), L_Professional)
        location == Or(Or(p.identity.location, Get(resume_persona, "location")), L_Unknown)
        summary == Or(Or(p.identity.summary, Get(resume_persona, "summary")), <<>>)
        skills == OrList(OrList(p.skills, GetList(resume_persona, "top_skills")), GetList(resume_persona, "skills"))
        goals == p.goals
        experience == Take(OrList(OrList(p.experience, GetList(resume_persona, "experience_highlights")), GetList(resume_persona, "experience")), ExperienceLimit)
        education == Take(OrList(p.education, GetList(resume_persona, "education")), EducationLimit)
        exp_lines == [i \in 1..Len(experience) |-> ExpLine(experience[i])]
        edu_lines == [i \in 1..Len(education) |-> EduLine(education[i])]
        roles == p.job_preferences.target_roles
        context == L_user_profile \o full_name \o L_title \o title \o L_location \o location \o L_nl
                   \o (IF Truthy(summary) THEN L_summary \o Take(summary, SummaryLimit) \o L_nl ELSE <<>>)
                   \o (IF skills # <<>> THEN L_top_skills \o Join(Take(skills, SkillsLimit), L_comma) \o L_nl ELSE <<>>)
                   \o (IF goals # <<>> THEN L_goals \o Join(goals, L_comma) \o L_nl ELSE <<>>)
                   \o (IF exp_lines # <<>> THEN L_work \o Join(exp_lines, L_nl) \o L_nl ELSE <<>>)
                   \o (IF edu_lines # <<>> THEN L_education \o Join(edu_lines, L_nl) \o L_nl ELSE <<>>)
                   \o (IF roles # <<>> THEN L_target_roles \o Join(roles, L_comma) \o L_nl ELSE <<>>)
    IN  Strip(context)

EmptyDict == [k \in {} |-> <<>>]

\* ----------------------------------------------------------------------
\* json.loads on the characters of a text
\* ----------------------------------------------------------------------
\* A parsed value is kept as a token sequence: "STR" c1 .. cn "END" for a
\* string, "NUM" d1 .. dn "END" for a number, "ARR" v1 .. vn "END" for a
\* list and "OBJ" k1 v1 .. kn vn "END" for a dict (keys as strings), so that
\* two parsed values can be compared.  The texts of the model hold no
\* escape sequence, sign, fraction, exponent or literal name.
Digits == {"0", "1", "2", "3", "4", "5", "6", "7", "8", "9"}

JsonFail == [ok |-> FALSE, val |-> <<>>, next |-> 0]

\* the index of the first character at or after i that is not whitespace
RECURSIVE SkipWs(_, _)
SkipWs(s, i) == IF i <= Len(s) /\ s[i] \in Whitespace THEN SkipWs(s, i + 1) ELSE i

\* the index of the closing quote of the string whose opening quote is
\* before i; 0 when the string is not terminated or holds a control character
RECURSIVE StringEnd(_, _)
StringEnd(s, i) ==
    IF i > Len(s) THEN 0
    ELSE IF s[i] = "\"" THEN i
    ELSE IF s[i] \in {"\n", "\t", "\r", "\\"} THEN 0
    ELSE StringEnd(s, i + 1)

\* the index after the digits of the number starting at i
RECURSIVE DigitsEnd(_, _)
DigitsEnd(s, i) == IF i <= Len(s) /\ s[i] \in Digits THEN DigitsEnd(s, i + 1) ELSE i

ParseString(s, i) ==
    LET e == StringEnd(s, i + 1)
    IN  IF e = 0 THEN JsonFail
        ELSE [ok |-> TRUE, val |-> <<"STR">> \o SubSeq(s, i + 1, e - 1) \o <<"END">>, next |-> e + 1]

\* an integer: "0" alone, or a run of digits not starting with "0"
ParseNumber(s, i) ==
    LET e == IF s[i] = "0" THEN i + 1 ELSE DigitsEnd(s, i)
    IN  [ok |-> TRUE, val |-> <<"NUM">> \o SubSeq(s, i, e - 1) \o <<"END">>, next |-> e]

RECURSIVE ParseValue(_, _)
RECURSIVE ParseMembers(_, _, _)
RECURSIVE ParseElements(_, _, _)

\* JSONDecoder scan_once at index i
ParseValue(s, i) ==
    IF i > Len(s) THEN JsonFail
    ELSE IF s[i] = "\"" THEN ParseString(s, i)
    ELSE IF s[i] \in Digits THEN ParseNumber(s, i)
    ELSE IF s[i] = "{"
         THEN LET j == SkipWs(s, i + 1)
              IN  IF j <= Len(s) /\ s[j] = "}" THEN [ok |-> TRUE, val |-> <<"OBJ", "END">>, next |-> j + 1]
                  ELSE ParseMembers(s, j, <<"OBJ">>)
    ELSE IF s[i] = "["
         THEN LET j == SkipWs(s, i + 1)
              IN  IF j <= Len(s) /\ s[j] = "]" THEN [ok |-> TRUE, val |-> <<"ARR", "END">>, next |-> j + 1]
                  ELSE ParseElements(s, j, <<"ARR">>)
    ELSE JsonFail

\* JSONObject from the key at index i on; acc holds the pairs read so far
ParseMembers(s, i, acc) ==
    IF i > Len(s) \/ s[i] # "\"" THEN JsonFail
    ELSE LET k == ParseString(s, i)
             c == IF k.ok THEN SkipWs(s, k.next) ELSE 0
             v == IF k.ok /\ c <= Len(s) /\ s[c] = ":" THEN ParseValue(s, SkipWs(s, c + 1)) ELSE JsonFail
             d == IF v.ok THEN SkipWs(s, v.next) ELSE 0
         IN  IF ~v.ok \/ d > Len(s) THEN JsonFail
             ELSE IF s[d] = "}" THEN [ok |-> TRUE, val |-> acc \o k.val \o v.val \o <<"END">>, next |-> d + 1]
             ELSE IF s[d] = "," THEN ParseMembers(s, SkipWs(s, d + 1), acc \o k.val \o v.val)
             ELSE JsonFail

\* JSONArray from the element at index i on
ParseElements(s, i, acc) ==
    LET v == ParseValue(s, i)
        d == IF v.ok THEN SkipWs(s, v.next) ELSE 0
    IN  IF ~v.ok \/ d > Len(s) THEN JsonFail
        ELSE IF s[d] = "]" THEN [ok |-> TRUE, val |-> acc \o v.val \o <<"END">>, next |-> d + 1]
        ELSE IF s[d] = "," THEN ParseElements(s, SkipWs(s, d + 1), acc \o v.val)
        ELSE JsonFail

\* json.loads(text): ok = FALSE stands for json.JSONDecodeError; the whole
\* text must be one value between optional whitespace
json_loads(text) ==
    LET v == ParseValue(text, SkipWs(text, 1))
    IN  IF v.ok /\ SkipWs(text, v.next) > Len(text) THEN [ok |-> TRUE, val |-> v.val] ELSE [ok |-> FALSE, val |-> <<>>]

\* string literals of resume_advisor_agent.py and model outputs
\* (the grave accent is written "GRAVE": a string of the module cannot hold it)
F_json == <<"GRAVE", "GRAVE", "GRAVE", "j", "s", "o", "n">>
F_fence == <<"GRAVE", "GRAVE", "GRAVE">>
J_obj == <<"{", "\"", "a", "\"", ":", "1", "}">>
J_trailing == <<"{", "\"", "a", "\"", ":", "1", ",", "}">>
J_nested == <<"{", "\"", "a", "\"", ":", "[", "1", ",", "]", ",", "}">>
J_arr == <<"[", "1", "]">>
J_str == <<"{", "\"", "a", "\"", ":", "\"", "b", "\"", "}">>
J_comma_in_str == <<"{", "\"", "a", "\"", ":", "\"", ",", "}", "\"", "}">>
J_arr_obj == <<"[", "{", "\"", "a", "\"", ":", "1", "}", "]">>
J_str_trailing == <<"{", "\"", "a", "\"", ":", "\"", ",", "}", "\"", ",", "}">>
J_url_trailing == <<"{", "\"", "u", "\"", ":", "\"", "/", "/", "\"", ",", "}">>
J_two == <<"{", "\"", "a", "\"", ":", "1", "}", " ", "{", "\"", "b", "\"", ":", "2", "}">>
J_open == <<"{", "\"", "a", "\"", ":">>
J_comment == <<"{", "\"", "a", "\"", ":", "1", " ", "/", "/", "c", "\n", "}">>
J_prose == <<"n", "o", " ", "j", "s", "o", "n">>
J_braces == <<"}", "{">>
W_prose_before == <<"S", "u", "r", "e", ":", " ">>
W_prose_after == <<" ", "o", "k">>
W_nl == <<"\n">>

\* ----------------------------------------------------------------------
\* Response repair / extraction: _parse_json and extract_persona
\* ----------------------------------------------------------------------
\* the first index at or after from where pat occurs in s, 0 when none
Find(s, pat, from) ==
    LET hits == {i \in from..(Len(s) - Len(pat) + 1) : SubSeq(s, i, i + Len(pat) - 1) = pat}
    IN  IF hits = {} THEN 0 ELSE CHOOSE i \in hits : \A j \in hits : i <= j

\* content.split(open)[1].split(close)[0] when open occurs in content and
\* every occurrence of open starts with close: the text after the first
\* open up to the next close, or to the end
Segment(content, open, close) ==
    LET start == Find(content, open, 1) + Len(open)
        stop == Find(content, close, start)
    IN  IF stop = 0 THEN SubSeq(content, start, Len(content)) ELSE SubSeq(content, start, stop - 1)

\* the markdown-fence branch of _parse_json and of extract_persona
StripFences(content) ==
    IF Contains(content, F_json) THEN Segment(content, F_json, F_fence)
    ELSE IF Contains(content, F_fence) THEN Segment(content, F_fence, F_fence)
    ELSE content

\* re.search(r'\{.*\}', content, re.DOTALL): from the first "{" to the last
\* "}" after it; found = FALSE when there is no such pair
BraceSpan(content) ==
    LET opens == {i \in 1..Len(content) : content[i] = "{"}
        a == IF opens = {} THEN 0 ELSE CHOOSE i \in opens : \A j \in opens : i <= j
        closes == {i \in 1..Len(content) : content[i] = "}" /\ i > a}
        b == IF closes = {} THEN 0 ELSE CHOOSE i \in closes : \A j \in closes : i >= j
    IN  IF a > 0 /\ b > a THEN [found |-> TRUE, text |-> SubSeq(content, a, b)] ELSE [found |-> FALSE, text |-> <<>>]

\* re.sub(r',(\s*[}\]])', r'\1', raw): drop every comma that is followed,
\* after optional whitespace, by "}" or "]"
RepairTrailingCommas(raw) ==
    LET drop == {i \in 1..Len(raw) : raw[i] = "," /\ SkipWs(raw, i + 1) <= Len(raw) /\ raw[SkipWs(raw, i + 1)] \in {"}", "]"}}
        keep == {i \in 1..Len(raw) : i \notin drop}
        Nth(k) == CHOOSE i \in keep : Cardinality({j \in keep : j < i}) = k - 1
    IN  [k \in 1..Cardinality(keep) |-> raw[Nth(k)]]

\* re.sub(r'//.*', '', json_str): drop from every "//" to the end of its line
RemoveComments(json_str) ==
    LET InComment(i) == \E c \in 1..i : /\ c < Len(json_str) /\ json_str[c] = "/" /\ json_str[c + 1] = "/"
                                         /\ \A j \in c..i : json_str[j] # "\n"
        keep == {i \in 1..Len(json_str) : ~InComment(i)}
        Nth(k) == CHOOSE i \in keep : Cardinality({j \in keep : j < i}) = k - 1
    IN  [k \in 1..Cardinality(keep) |-> json_str[Nth(k)]]

\* _parse_json of haystack-service: ok = FALSE stands for the
\* json.JSONDecodeError raised by its last line
_parse_json(content0) ==
    LET content == StripFences(content0)
        match == BraceSpan(content)
        raw == RepairTrailingCommas(match.text)
    IN  IF match.found /\ json_loads(raw).ok THEN json_loads(raw)
        ELSE json_loads(Strip(content))

\* the fallback dicts returned by the two except clauses
\* (keys and values as whole tokens)
FallbackHaystack ==
    <<"OBJ", "full_name", "Candidate", "professional_title", "Professional", "years_experience", "0",
      "summary", "Resume uploaded. Please review and edit the details below.",
      "top_skills", "ARR", "END", "experience_highlights", "ARR", "END", "projects", "ARR", "END",
      "education", "ARR", "END", "certifications", "ARR", "END", "career_level", "Unknown",
      "suggested_roles", "ARR", "END", "END">>

\* the ai-service one; its summary ends with str(e), here the JSONDecodeError
FallbackAi ==
    <<"OBJ", "full_name", "Candidate (Extraction Failed)", "professional_title", "Professional", "years_experience", "0",
      "summary", "Could not extract persona automatically. Error: ", "JSONDecodeError",
      "top_skills", "ARR", "Manual review required", "END", "experience_highlights", "ARR", "END",
      "education", "ARR", "END", "career_level", "Unknown", "suggested_roles", "ARR", "END", "END">>

\* ResumeAdvisorAgent.extract_persona of haystack-service on the outcome of
\* generator.run: the whole body is inside the try
ExtractPersonaHaystack(outcome) ==
    IF outcome.raised THEN [raised |-> FALSE, fallback |-> TRUE, val |-> FallbackHaystack]
    ELSE IF _parse_json(outcome.content).ok THEN [raised |-> FALSE, fallback |-> FALSE, val |-> _parse_json(outcome.content).val]
    ELSE [raised |-> FALSE, fallback |-> TRUE, val |-> FallbackHaystack]

\* repair_json of ai-service
repair_json(json_str) == RepairTrailingCommas(RemoveComments(json_str))

\* the parsing steps of the ai-service extract_persona after the model
\* replied: ok = FALSE when the last json.loads raises
ParseAi(content) ==
    LET match == BraceSpan(content)
        cleaned == Strip(StripFences(content))
    IN  IF match.found /\ json_loads(match.text).ok THEN json_loads(match.text)
        ELSE IF match.found /\ json_loads(repair_json(match.text)).ok THEN json_loads(repair_json(match.text))
        ELSE IF json_loads(cleaned).ok THEN json_loads(cleaned)
        ELSE json_loads(repair_json(cleaned))

\* ResumeAdvisorAgent.extract_persona of ai-service on the outcome of
\* json_llm.invoke.  Its except clause logs response.content: when invoke
\* raised, response was never bound and the handler itself raises
\* UnboundLocalError, which leaves extract_persona.
ExtractPersonaAi(outcome) ==
    IF outcome.raised THEN [raised |-> TRUE, fallback |-> FALSE, val |-> <<>>]
    ELSE IF ParseAi(outcome.content).ok THEN [raised |-> FALSE, fallback |-> FALSE, val |-> ParseAi(outcome.content).val]
    ELSE [raised |-> FALSE, fallback |-> TRUE, val |-> FallbackAi]

\* ----------------------------------------------------------------------
\* Bounds and inputs
\* ----------------------------------------------------------------------
\* requests served in one behaviour
MaxRequests == 2

\* self.ttl counted in clock ticks (86400 seconds in the source)
TtlTicks == 2

Users == {U_1, U_2}

\* the (user_id, message) pairs sent to /chat and /chat/stream
ChatRequests == {<<U_1, M_review>>, <<U_1, M_hello>>, <<U_1, M_gap>>, <<U_2, M_hello>>}

\* replies of a specialist agent's generator.run: a text, or an empty reply
AgentReplies == {R_ok, <<>>}

AgentOutcomes == {[raised |-> FALSE, content |-> c] : c \in AgentReplies} \cup {Raised}

\* what the memory model's reply parses to in analyze_convo: no JSON object
\* (parsed = FALSE), {"has_update": false}, or an update
NoUpdate == [has_update |-> FALSE, intent |-> None, data |-> EmptyDict]

GoalsUpdate == [has_update |-> TRUE, intent |-> I_update_goals, data |-> [goals |-> <<G_cto>>]]

SkillsUpdate == [has_update |-> TRUE, intent |-> I_update_skills, data |-> [skills |-> <<S_python, S_Go>>]]

UpdaterOutcomes == {[raised |-> TRUE, parsed |-> FALSE, json |-> NoUpdate], [raised |-> FALSE, parsed |-> FALSE, json |-> NoUpdate], [raised |-> FALSE, parsed |-> TRUE, json |-> NoUpdate], [raised |-> FALSE, parsed |-> TRUE, json |-> GoalsUpdate], [raised |-> FALSE, parsed |-> TRUE, json |-> SkillsUpdate]}

\* ProfileUpdaterAgent.analyze_convo: None, or the parsed object when it
\* reports an update; every exception is caught inside and gives None
analyze_convo(user_message, outcome) ==
    IF Len(user_message) < 5 THEN [update |-> FALSE, json |-> NoUpdate]
    ELSE IF outcome.raised \/ ~outcome.parsed THEN [update |-> FALSE, json |-> NoUpdate]
    ELSE IF outcome.json.has_update THEN [update |-> TRUE, json |-> outcome.json]
    ELSE [update |-> FALSE, json |-> NoUpdate]

\* ----------------------------------------------------------------------
\* State
\* ----------------------------------------------------------------------
VARIABLES
    redis,        \* ResponseCache.redis: TRUE the client, FALSE None
    store,        \* the Redis key space: key -> [val, ttl]
    disk,         \* uploads/<user>/unified_profile.json, per user
    persona_doc,  \* uploads/<user>/persona.json, per user ({} when missing)
    req,          \* the request being served (or served last) and its cached_response
    pc,           \* where its handler stands: idle, supervisor, agent, update
    wf,           \* the workflow state: messages[-1].content and active_agent
    pm,           \* the PersonaManager profile held by chat_stream.generate
    http,         \* the answer of POST /chat
    frames,       \* the SSE frames sent by POST /chat/stream so far
    calls,        \* model calls made while serving req
    nreq,         \* requests started
    updates,      \* analyze_convo calls awaited while serving req
    now,          \* the clock
    cres,         \* the last direct call of ResponseCache and its result
    lastSet,      \* the last set() call and the time passed since
    inst,         \* the PersonaManager instances: their self.profile
    lastCall,     \* the last ingest_resume_data / update_from_chat call
    nops,         \* PersonaManager calls made
    ex,           \* the last extract_persona call: implementation, model outcome, result
    rt,           \* the last routing of a workflow: entry point, message, model outcome, result
    rs,           \* the last answer of a /resume endpoint: endpoint, user, persona given / found, status, detail
    cx,           \* the last rendering of get_context_for_llm: goals and skills of the profile, length of the text
    pdf,          \* the last generate_pdf call: template, page_count, persona, skills and bullets in the story
    iv,           \* the interview session in progress, the questions handed out and the last call on it
    ck,           \* two chat requests in a row on an empty cache: their cache keys and what the second lookup returned
    lb,           \* one run of the workflow on a message and on what the supervisor returned: the agent run and the agent name reported to the client
    ss            \* uploads/<user>/sessions: the session files by timestamp, and the tailoring requests so far

vars == <<redis, store, disk, persona_doc, req, pc, wf, pm, http, frames, calls, nreq, updates, now, cres, lastSet, inst, lastCall, nops, ex, rt, rs, cx, pdf, iv, ck, lb, ss>>

\* the variables of the direct cache calls and of the PersonaManager instances
cacheCallVars == <<cres, lastSet>>

personaVars == <<inst, lastCall, nops>>

extractVars == <<ex>>

routeVars == <<rt>>

resumeVars == <<rs>>

contextVars == <<cx>>

pdfVars == <<pdf>>

interviewVars == <<iv>>

chatKeyVars == <<ck>>

labelVars == <<lb>>

sessionVars == <<ss>>

\* the variables of the two chat handlers
chatVars == <<req, pc, wf, pm, http, frames, calls, nreq, updates>>

NoReq == [kind |-> "none", user_id |-> <<>>, message |-> <<>>, cached_response |-> None]

NoHttp == [status |-> 0, response |-> <<>>, agent |-> <<>>]

NoWf == [message |-> <<>>, active_agent |-> A_supervisor]

Frame(type, agent, content) == [type |-> type, agent |-> agent, content |-> content]

\* the cache query of both chat handlers: f"{request.user_id}:{request.message}"
ChatQuery(user_id, message) == user_id \o <<":">> \o message

NoCacheCall == [op |-> "none", agent |-> <<>>, query |-> <<>>, ok |-> TRUE, ret |-> None, raised |-> FALSE, changed |-> FALSE]

NoSet == [set |-> FALSE, agent |-> <<>>, query |-> <<>>, val |-> <<>>, ok |-> FALSE, age |-> 0]

NoExtract == [pc |-> "idle", impl |-> "none", outcome |-> [raised |-> FALSE, content |-> <<>>], result |-> [raised |-> FALSE, fallback |-> FALSE, val |-> <<>>]]

NoRoute == [pc |-> "idle", entry |-> "none", message |-> <<>>, outcome |-> [raised |-> FALSE, content |-> <<>>], active_agent |-> None, supervisor_called |-> FALSE, raised |-> FALSE]

NoResume == [endpoint |-> "none", user |-> <<>>, given |-> FALSE, found |-> FALSE, status |-> 0, detail |-> <<>>, request |-> EmptyDict]

NoContext == [pc |-> "idle", goals |-> 0, skills |-> 0, len |-> 0]

NoPdf == [pc |-> "idle", template |-> "none", page_count |-> 0, persona |-> [top_skills |-> <<>>, experience_highlights |-> <<>>], skills |-> <<>>, bullets |-> <<>>]

NoInterview == [pc |-> "none", session |-> [question_types |-> <<>>, questions_asked |-> <<>>, current_question_index |-> 0, started_at |-> 0], handed |-> <<>>, nones |-> 0, calls |-> 0, answers |-> 0, lastop |-> "none", outcome |-> "none"]

NoChatKeys == [pc |-> "idle", first |-> [user_id |-> <<>>, message |-> <<>>], second |-> [user_id |-> <<>>, message |-> <<>>], same_key |-> FALSE, cached_response |-> None]

NoLabel == [pc |-> "idle", entry |-> "none", message |-> <<>>, routed_state |-> EmptyDict, ran |-> None, reported |-> None]

NoSessions == [files |-> [u \in Users |-> EmptyDict], nt |-> 0]

\* the PersonaManager instances alive at the same time (one per request)
Instances == {1, 2}

\* saved[i]: the profile held by instance i was written by a save of i;
\* again: the call repeated the update the same instance had just applied;
\* reloaded: the instance of the call was constructed anew since the call
NoCall == [kind |-> "none", inst |-> 0, io |-> "ok", intent |-> None, data |-> EmptyDict, again |-> FALSE, reloaded |-> FALSE, saved |-> [i \in Instances |-> FALSE]]

Init ==
    /\ redis \in {CacheConstruct(r) : r \in BOOLEAN}
    /\ store = EmptyStore
    /\ disk = [u \in Users |-> NoFile]
    /\ persona_doc = [u \in Users |-> EmptyDict]
    /\ req = NoReq
    /\ pc = "idle"
    /\ wf = NoWf
    /\ pm = DefaultProfile(0)
    /\ http = NoHttp
    /\ frames = <<>>
    /\ calls = 0
    /\ nreq = 0
    /\ updates = 0
    /\ now = 0
    /\ cres = NoCacheCall
    /\ lastSet = NoSet
    /\ inst = [i \in Instances |-> DefaultProfile(0)]
    /\ lastCall = NoCall
    /\ nops = 0
    /\ ex = NoExtract
    /\ rt = NoRoute
    /\ rs = NoResume
    /\ cx = NoContext
    /\ pdf = NoPdf
    /\ iv = NoInterview
    /\ ck = NoChatKeys
    /\ lb = NoLabel
    /\ ss = NoSessions

\* ----------------------------------------------------------------------
\* POST /chat
\* ----------------------------------------------------------------------
\* chat() that never takes the cached branch
ChatCacheHit_Never(cached_response) == FALSE

\* `if cached_response:` followed by a json.loads that succeeds
ChatCacheHit(cached_response) == Truthy(cached_response) /\ JsonLoads(cached_response).ok

\* chat() from its entry to the first model call: the cache lookup, the
\* initial state and the keyword routing of ainvoke.  ok: Redis answers.
ChatBegin(u, m, ok) ==
    /\ pc = "idle"
    /\ nreq < MaxRequests
    /\ LET cached_response == CacheGet(redis, store, ok, A_chat, ChatQuery(u, m)).ret
           route == AinvokeKeywordRoute(Lower(m))
       IN  /\ req' = [kind |-> "chat", user_id |-> u, message |-> m, cached_response |-> cached_response]
           /\ nreq' = nreq + 1
           /\ now' = now + 1
           /\ calls' = 0
           /\ updates' = 0
           /\ frames' = <<>>
           /\ IF ChatCacheHit(cached_response)
              THEN /\ http' = [status |-> 200, response |-> JsonLoads(cached_response).data.response, agent |-> JsonLoads(cached_response).data.agent]
                   /\ pc' = "idle"
                   /\ wf' = NoWf
              ELSE /\ http' = NoHttp
                   /\ IF route # None
                      THEN /\ wf' = [message |-> m, active_agent |-> AinvokeValidate(route)]
                           /\ pc' = "agent"
                      ELSE /\ wf' = [message |-> m, active_agent |-> A_supervisor]
                           /\ pc' = "supervisor"
    /\ UNCHANGED <<redis, store, disk, persona_doc, pm, cacheCallVars, personaVars, extractVars, routeVars, resumeVars, contextVars, pdfVars, interviewVars, chatKeyVars, labelVars, sessionVars>>

\* `await self.supervisor.run(state)` inside ainvoke, called from chat():
\* an exception reaches chat's except clause, which answers 500
ChatSupervisor(outcome) ==
    /\ pc = "supervisor"
    /\ req.kind = "chat"
    /\ calls' = calls + 1
    /\ LET r == SupervisorRun(wf.message, outcome)
       IN  IF r.raised
           THEN /\ http' = [status |-> 500, response |-> <<>>, agent |-> <<>>]
                /\ pc' = "idle"
                /\ wf' = wf
           ELSE /\ wf' = [wf EXCEPT !.active_agent = AinvokeValidate(r.active_agent)]
                /\ pc' = "agent"
                /\ http' = http
    /\ UNCHANGED <<redis, store, disk, persona_doc, req, pm, frames, nreq, updates, now, cacheCallVars, personaVars, extractVars, routeVars, resumeVars, contextVars, pdfVars, interviewVars, chatKeyVars, labelVars, sessionVars>>

\* `await agent.run(state)` (generator.run is not inside a try) and the rest
\* of chat(): response_data, cache.set, the ChatResponse
ChatAgent(outcome, ok) ==
    /\ pc = "agent"
    /\ req.kind = "chat"
    /\ calls' = calls + 1
    /\ pc' = "idle"
    /\ IF outcome.raised
       THEN /\ http' = [status |-> 500, response |-> <<>>, agent |-> <<>>]
            /\ store' = store
       ELSE LET response_data == [response |-> outcome.content, agent |-> wf.active_agent]
            IN  /\ store' = CacheSet(redis, store, ok, TtlTicks, A_chat, ChatQuery(req.user_id, req.message), JsonDumps(response_data)).store
                /\ http' = [status |-> 200, response |-> response_data.response, agent |-> response_data.agent]
    /\ UNCHANGED <<redis, disk, persona_doc, req, wf, pm, frames, nreq, updates, now, cacheCallVars, personaVars, extractVars, routeVars, resumeVars, contextVars, pdfVars, interviewVars, chatKeyVars, labelVars, sessionVars>>

\* ----------------------------------------------------------------------
\* POST /chat/stream
\* ----------------------------------------------------------------------
\* f"CONTEXT:\n{user_context}\n\nUSER MESSAGE:\n{request.message}"
Contextualized(user_context, message) == L_context \o user_context \o L_user_message \o message

\* chat_stream() from its entry to the first model call.  On a cache hit the
\* body is send_cached: one frame of type "complete" (no frame at all when
\* json.loads raises).  Otherwise generate() sends "start", loads the
\* PersonaManager, and astream_events routes by keyword, yielding the
\* supervisor event that generate() forwards as an "agent" frame.
StreamBegin(u, m, ok) ==
    /\ pc = "idle"
    /\ nreq < MaxRequests
    /\ LET cached_response == CacheGet(redis, store, ok, A_chat, ChatQuery(u, m)).ret
           profile == _load_profile(disk[u], now)
           message == Contextualized(get_context_for_llm(profile, persona_doc[u]), m)
           route == AstreamKeywordRoute(Lower(message))
       IN  /\ req' = [kind |-> "stream", user_id |-> u, message |-> m, cached_response |-> cached_response]
           /\ nreq' = nreq + 1
           /\ now' = now + 1
           /\ calls' = 0
           /\ updates' = 0
           /\ http' = NoHttp
           /\ IF Truthy(cached_response)
              THEN /\ frames' = IF JsonLoads(cached_response).ok THEN <<Frame("complete", JsonLoads(cached_response).data.agent, JsonLoads(cached_response).data.response)>> ELSE <<>>
                   /\ pc' = "idle"
                   /\ wf' = NoWf
                   /\ pm' = pm
              ELSE /\ pm' = profile
                   /\ IF route # None
                      THEN /\ wf' = [message |-> message, active_agent |-> route]
                           /\ frames' = <<Frame("start", <<>>, <<>>), Frame("agent", route, <<>>)>>
                           /\ pc' = "agent"
                      ELSE /\ wf' = [message |-> message, active_agent |-> A_supervisor]
                           /\ frames' = <<Frame("start", <<>>, <<>>)>>
                           /\ pc' = "supervisor"
    /\ UNCHANGED <<redis, store, disk, persona_doc, cacheCallVars, personaVars, extractVars, routeVars, resumeVars, contextVars, pdfVars, interviewVars, chatKeyVars, labelVars, sessionVars>>

\* `await self.supervisor.run(state)` inside astream_events: an exception
\* reaches the outer except of generate(), which sends an "error" frame
StreamSupervisor(outcome) ==
    /\ pc = "supervisor"
    /\ req.kind = "stream"
    /\ calls' = calls + 1
    /\ LET r == SupervisorRun(wf.message, outcome)
       IN  IF r.raised
           THEN /\ frames' = Append(frames, Frame("error", <<>>, <<>>))
                /\ pc' = "idle"
                /\ wf' = wf
           ELSE /\ wf' = [wf EXCEPT !.active_agent = r.active_agent]
                /\ frames' = Append(frames, Frame("agent", r.active_agent, <<>>))
                /\ pc' = "agent"
    /\ UNCHANGED <<redis, store, disk, persona_doc, req, pm, http, nreq, updates, now, cacheCallVars, personaVars, extractVars, routeVars, resumeVars, contextVars, pdfVars, interviewVars, chatKeyVars, labelVars, sessionVars>>

\* the frames generate() sends once agent.run returned content: the chunk
\* (when the content is not empty), then "done" or "error"
ReplyFrames(active_agent, content) ==
    IF content # <<>>
    THEN <<Frame("chunk", <<>>, content), Frame("done", active_agent, content)>>
    ELSE <<Frame("error", <<>>, <<>>)>>

\* `await agent.run(state)` inside astream_events and generate() up to the
\* await of analyze_convo: chunk, cache.set and "done" (or "error").  A
\* message shorter than 5 characters makes analyze_convo return None at
\* once, which ends the handler here.
StreamAgent(outcome, ok) ==
    /\ pc = "agent"
    /\ req.kind = "stream"
    /\ calls' = calls + 1
    /\ IF outcome.raised
       THEN /\ frames' = Append(frames, Frame("error", <<>>, <<>>))
            /\ store' = store
            /\ pc' = "idle"
            /\ updates' = updates
       ELSE LET response_data == [response |-> outcome.content, agent |-> wf.active_agent]
            IN  /\ frames' = frames \o ReplyFrames(wf.active_agent, outcome.content)
                /\ store' = IF outcome.content # <<>>
                            THEN CacheSet(redis, store, ok, TtlTicks, A_chat, ChatQuery(req.user_id, req.message), JsonDumps(response_data)).store
                            ELSE store
                /\ pc' = IF Len(req.message) < 5 THEN "idle" ELSE "update"
                /\ updates' = IF Len(req.message) < 5 THEN updates + 1 ELSE updates
    /\ UNCHANGED <<redis, disk, persona_doc, req, wf, pm, http, nreq, now, cacheCallVars, personaVars, extractVars, routeVars, resumeVars, contextVars, pdfVars, interviewVars, chatKeyVars, labelVars, sessionVars>>

\* the background profile update of generate(): analyze_convo's model call
\* and, when it reports an update, pm.update_from_chat on the profile loaded
\* at the start of the stream
StreamUpdate(outcome, io) ==
    /\ pc = "update"
    /\ req.kind = "stream"
    /\ calls' = calls + 1
    /\ updates' = updates + 1
    /\ pc' = "idle"
    /\ LET update_data == analyze_convo(req.message, outcome)
       IN  IF update_data.update
           THEN \E order \in ListsOf(ChatUnion(pm, update_data.json.intent, update_data.json.data)) :
                    LET s == update_from_chat(pm, disk[req.user_id], update_data.json.intent, update_data.json.data, order, now, io)
                    IN  /\ pm' = s.profile
                        /\ disk' = [disk EXCEPT ![req.user_id] = s.file]
           ELSE UNCHANGED <<pm, disk>>
    /\ UNCHANGED <<redis, store, persona_doc, req, wf, http, frames, nreq, now, cacheCallVars, personaVars, extractVars, routeVars, resumeVars, contextVars, pdfVars, interviewVars, chatKeyVars, labelVars, sessionVars>>

Next ==
    \/ \E r \in ChatRequests, ok \in BOOLEAN : ChatBegin(r[1], r[2], ok)
    \/ \E outcome \in SupervisorOutcomes : ChatSupervisor(outcome)
    \/ \E outcome \in AgentOutcomes, ok \in BOOLEAN : ChatAgent(outcome, ok)
    \/ \E r \in ChatRequests, ok \in BOOLEAN : StreamBegin(r[1], r[2], ok)
    \/ \E outcome \in SupervisorOutcomes : StreamSupervisor(outcome)
    \/ \E outcome \in AgentOutcomes, ok \in BOOLEAN : StreamAgent(outcome, ok)
    \/ \E outcome \in UpdaterOutcomes, io \in IoOutcomes : StreamUpdate(outcome, io)

Spec == Init /\ [][Next]_vars

\* ----------------------------------------------------------------------
\* ResponseCache called directly (as the tests do), with time passing
\* ----------------------------------------------------------------------
CacheAgents == {A_chat, A_profile}

\* the queries stored: "hello" and " Hello " normalise to the same text
CacheQueries == {M_hello, M_hello_sp}

\* the queries looked up: the stored ones and "gap", which is never stored
CacheLookups == CacheQueries \cup {M_gap}

CacheValues == {R_ok, <<>>}

\* cache.get(agent, query); ok: the server answers this call
CacheGetCall(agent, query, ok) ==
    /\ LET g == CacheGet(redis, store, ok, agent, query)
       IN  cres' = [op |-> "get", agent |-> agent, query |-> query, ok |-> ok, ret |-> g.ret, raised |-> g.raised, changed |-> FALSE]
    /\ UNCHANGED <<redis, store, disk, persona_doc, now, lastSet, chatVars, personaVars, extractVars, routeVars, resumeVars, contextVars, pdfVars, interviewVars, chatKeyVars, labelVars, sessionVars>>

\* cache.set(agent, query, response)
CacheSetCall(agent, query, response, ok) ==
    /\ LET r == CacheSet(redis, store, ok, TtlTicks, agent, query, response)
       IN  /\ store' = r.store
           /\ cres' = [op |-> "set", agent |-> agent, query |-> query, ok |-> ok, ret |-> None, raised |-> r.raised, changed |-> r.store # store]
    /\ lastSet' = [set |-> TRUE, agent |-> agent, query |-> query, val |-> response, ok |-> redis /\ ok, age |-> 0]
    /\ UNCHANGED <<redis, disk, persona_doc, now, chatVars, personaVars, extractVars, routeVars, resumeVars, contextVars, pdfVars, interviewVars, chatKeyVars, labelVars, sessionVars>>

\* cache.clear()
CacheClearCall(ok) ==
    /\ LET r == CacheClear(redis, store, ok)
       IN  /\ store' = r.store
           /\ cres' = [op |-> "clear", agent |-> <<>>, query |-> <<>>, ok |-> ok, ret |-> None, raised |-> r.raised, changed |-> r.store # store]
    /\ lastSet' = IF redis /\ ok THEN NoSet ELSE lastSet
    /\ UNCHANGED <<redis, disk, persona_doc, now, chatVars, personaVars, extractVars, routeVars, resumeVars, contextVars, pdfVars, interviewVars, chatKeyVars, labelVars, sessionVars>>

\* one unit of time passes: Redis ages its entries
Tick ==
    /\ store' = RedisTick(store)
    /\ lastSet' = IF lastSet.set /\ lastSet.age < TtlTicks THEN [lastSet EXCEPT !.age = @ + 1] ELSE lastSet
    /\ cres' = NoCacheCall
    /\ UNCHANGED <<redis, disk, persona_doc, now, chatVars, personaVars, extractVars, routeVars, resumeVars, contextVars, pdfVars, interviewVars, chatKeyVars, labelVars, sessionVars>>

NextCache ==
    \/ \E a \in CacheAgents, q \in CacheLookups, ok \in BOOLEAN : CacheGetCall(a, q, ok)
    \/ \E a \in CacheAgents, q \in CacheQueries, v \in CacheValues, ok \in BOOLEAN : CacheSetCall(a, q, v, ok)
    \/ \E ok \in BOOLEAN : CacheClearCall(ok)
    \/ Tick

SpecCache == Init /\ [][NextCache]_vars

\* ----------------------------------------------------------------------
\* PersonaManager instances of concurrent requests for one user
\* ----------------------------------------------------------------------
\* PersonaManager calls in one behaviour
MaxOps == 3

\* the user whose profile the instances share
TheUser == U_1

Exp_dev == [role |-> T_dev, company |-> N_qa]

Edu_bs == [degree |-> T_dev, school |-> N_qa, year |-> <<"2", "0">>]

\* parsed resumes handed to ingest_resume_data
ResumeJane == [full_name |-> N_jane, professional_title |-> T_dev, summary |-> T_lead, top_skills |-> <<S_Python>>, experience_highlights |-> <<Exp_dev>>]

ResumeQa == [name |-> N_qa, title |-> <<>>, summary |-> <<>>, skills |-> <<S_Go, S_python>>, education |-> <<Edu_bs>>, top_skills |-> <<>>]

Resumes == {ResumeJane, ResumeQa}

\* (intent, data) pairs handed to update_from_chat
PrefsUpdate == [has_update |-> TRUE, intent |-> I_update_preferences, data |-> [target_roles |-> <<T_lead>>]]

ChatUpdates == {GoalsUpdate, SkillsUpdate, PrefsUpdate}

\* PersonaManager(user_id): a request builds its instance from the file
Construct(i) ==
    /\ nops < MaxOps
    /\ nops' = nops + 1
    /\ inst' = [inst EXCEPT ![i] = _load_profile(disk[TheUser], now)]
    /\ lastCall' = [lastCall EXCEPT !.saved[i] = FALSE, !.reloaded = @ \/ (lastCall.inst = i)]
    /\ UNCHANGED <<redis, store, disk, persona_doc, now, chatVars, cacheCallVars, extractVars, routeVars, resumeVars, contextVars, pdfVars, interviewVars, chatKeyVars, labelVars, sessionVars>>

\* pm.ingest_resume_data(resume_data) on instance i
Ingest(i, resume_data, io) ==
    /\ nops < MaxOps
    /\ nops' = nops + 1
    /\ now' = now + 1
    /\ LET s == ingest_resume_data(inst[i], disk[TheUser], resume_data, now + 1, io)
       IN  /\ inst' = [inst EXCEPT ![i] = s.profile]
           /\ disk' = [disk EXCEPT ![TheUser] = s.file]
    /\ lastCall' = [kind |-> "ingest", inst |-> i, io |-> io, intent |-> None, data |-> resume_data, again |-> FALSE, reloaded |-> FALSE, saved |-> [lastCall.saved EXCEPT ![i] = (io = "ok")]]
    /\ UNCHANGED <<redis, store, persona_doc, chatVars, cacheCallVars, extractVars, routeVars, resumeVars, contextVars, pdfVars, interviewVars, chatKeyVars, labelVars, sessionVars>>

\* the list an intent adds to, and the key of data it reads
ListKey(intent) == IF intent = I_update_goals THEN "goals" ELSE "skills"

\* update u is the one instance i applied in the call before, i holds the
\* profile that call left, and the entries it brought are in it
Repeated(i, u) ==
    /\ lastCall.kind = "update" /\ lastCall.inst = i /\ lastCall.intent = u.intent /\ ~lastCall.reloaded
    /\ u.intent \in {I_update_goals, I_update_skills}
    /\ SetOf(u.data[ListKey(u.intent)]) \subseteq SetOf(inst[i][ListKey(u.intent)])

\* pm.update_from_chat(intent, data) on instance i
ChatUpdate(i, u, io) ==
    /\ nops < MaxOps
    /\ nops' = nops + 1
    /\ now' = now + 1
    /\ \E order \in ListsOf(ChatUnion(inst[i], u.intent, u.data)) :
           LET s == update_from_chat(inst[i], disk[TheUser], u.intent, u.data, order, now + 1, io)
           IN  /\ inst' = [inst EXCEPT ![i] = s.profile]
               /\ disk' = [disk EXCEPT ![TheUser] = s.file]
    /\ lastCall' = [kind |-> "update", inst |-> i, io |-> io, intent |-> u.intent, data |-> u.data, again |-> Repeated(i, u), reloaded |-> FALSE, saved |-> [lastCall.saved EXCEPT ![i] = (io = "ok")]]
    /\ UNCHANGED <<redis, store, persona_doc, chatVars, cacheCallVars, extractVars, routeVars, resumeVars, contextVars, pdfVars, interviewVars, chatKeyVars, labelVars, sessionVars>>

NextPersona ==
    \/ \E i \in Instances : Construct(i)
    \/ \E i \in Instances, r \in Resumes, io \in IoOutcomes : Ingest(i, r, io)
    \/ \E i \in Instances, u \in ChatUpdates, io \in IoOutcomes : ChatUpdate(i, u, io)

SpecPersona == Init /\ [][NextPersona]_vars

\* ----------------------------------------------------------------------
\* extract_persona of both services on the outcomes of the model call
\* ----------------------------------------------------------------------
\* what the model may put around its answer
Wrap(c) ==
    {c, W_nl \o c \o W_nl, F_json \o W_nl \o c \o W_nl \o F_fence, F_fence \o c \o F_fence,
     W_prose_before \o c, W_prose_before \o F_json \o c \o F_fence \o W_prose_after}

ModelAnswers == {<<>>, J_prose, J_obj, J_trailing, J_nested, J_arr, J_str, J_comma_in_str, J_arr_obj, J_str_trailing, J_url_trailing, J_two, J_open, J_comment, J_braces}

\* the model call raised, or replied with a text
ExtractOutcomes ==
    {[raised |-> TRUE, content |-> <<>>]} \union {[raised |-> FALSE, content |-> t] : t \in UNION {Wrap(c) : c \in ModelAnswers}}

Implementations == {"haystack", "ai"}

\* one call of extract_persona, from its prompt to its return or raise
ExtractPersona(impl, outcome) ==
    /\ ex.pc = "idle"
    /\ ex' = [pc |-> "done", impl |-> impl, outcome |-> outcome,
              result |-> IF impl = "haystack" THEN ExtractPersonaHaystack(outcome) ELSE ExtractPersonaAi(outcome)]
    /\ UNCHANGED <<redis, store, disk, persona_doc, now, chatVars, cacheCallVars, personaVars, routeVars, resumeVars, contextVars, pdfVars, interviewVars, chatKeyVars, labelVars, sessionVars>>

NextExtract == \E impl \in Implementations, outcome \in ExtractOutcomes : ExtractPersona(impl, outcome)

SpecExtract == Init /\ [][NextExtract]_vars

\* ----------------------------------------------------------------------
\* Routing of one message by HaystackWorkflow
\* ----------------------------------------------------------------------
\* the phrases the routed messages are made of
RouteWords == {
     <<"r", "e", "v", "i", "e", "w", " ", "m", "y", " ", "r", "e", "s", "u", "m", "e">>,
     <<"j", "o", "b">>,
     <<"l", "e", "a", "r", "n">>,
     <<"s", "k", "i", "l", "l", "s">>,
     <<"h", "e", "l", "l", "o">>,
     <<"C", "V">>,
     <<"A", "p", "p", "l", "y">>,
     <<"g", "a", "p">>,
     <<"c", "o", "u", "r", "s", "e">>,
     <<"s", "a", "l", "a", "r", "y">> }

\* messages[-1]["content"]: one phrase, or two phrases with a blank between
RouteMessages == RouteWords \union {a \o <<" ">> \o b : a \in RouteWords, b \in RouteWords}

R_sentence == <<"j", "o", "b", "_", "s", "e", "a", "r", "c", "h", ".">>

R_course == <<"T", "r", "y", " ", "a", " ", "c", "o", "u", "r", "s", "e">>

\* outcomes of the supervisor's model call: a quoted label, a label inside a
\* sentence, prose with or without a keyword, or an error
RouteOutcomes == {[raised |-> FALSE, content |-> c] : c \in {R_quoted, R_sentence, R_course, R_banana}} \cup {Raised}

\* HaystackWorkflow.ainvoke up to state["active_agent"] = active_agent_name
RouteAinvoke(m, outcome) ==
    LET route == AinvokeKeywordRoute(Lower(m))
        r == SupervisorRun(m, outcome)
    IN  IF route # None
        THEN [active_agent |-> AinvokeValidate(route), supervisor_called |-> FALSE, raised |-> FALSE]
        ELSE IF r.raised THEN [active_agent |-> None, supervisor_called |-> TRUE, raised |-> TRUE]
        ELSE [active_agent |-> AinvokeValidate(r.active_agent), supervisor_called |-> TRUE, raised |-> FALSE]

\* HaystackWorkflow.astream_events up to state["active_agent"] = active_agent_name
RouteAstream(m, outcome) ==
    LET route == AstreamKeywordRoute(Lower(m))
        r == SupervisorRun(m, outcome)
    IN  IF route # None
        THEN [active_agent |-> route, supervisor_called |-> FALSE, raised |-> FALSE]
        ELSE IF r.raised THEN [active_agent |-> None, supervisor_called |-> TRUE, raised |-> TRUE]
        ELSE [active_agent |-> r.active_agent, supervisor_called |-> TRUE, raised |-> FALSE]

\* one routing, through either entry point of the workflow
Route(entry, m, outcome) ==
    /\ rt.pc = "idle"
    /\ LET r == IF entry = "ainvoke" THEN RouteAinvoke(m, outcome) ELSE RouteAstream(m, outcome)
       IN  rt' = [pc |-> "done", entry |-> entry, message |-> m, outcome |-> outcome,
                  active_agent |-> r.active_agent, supervisor_called |-> r.supervisor_called, raised |-> r.raised]
    /\ UNCHANGED <<redis, store, disk, persona_doc, now, chatVars, cacheCallVars, personaVars, extractVars, resumeVars, contextVars, pdfVars, interviewVars, chatKeyVars, labelVars, sessionVars>>

NextRoute == \E entry \in {"ainvoke", "astream_events"}, m \in RouteMessages, outcome \in RouteOutcomes : Route(entry, m, outcome)

SpecRoute == Init /\ [][NextRoute]_vars

\* ----------------------------------------------------------------------
\* The /resume endpoints that read or write uploads/<user>/persona.json
\* ----------------------------------------------------------------------
\* os.path.exists(persona_path): the personas written here are never empty,
\* so an empty persona_doc stands for a missing file
PersonaExists(u) == persona_doc[u] # EmptyDict

\* an update that drops the keys the request does not carry
DictUpdate_Replace(old, new) == new

\* existing_persona.update(request.persona)
DictUpdate(old, new) == [k \in (DOMAIN old) \cup (DOMAIN new) |-> IF k \in DOMAIN new THEN new[k] ELSE old[k]]

\* request.persona of ResumeTailorRequest: None (or {}), or a persona
RequestPersonas == {EmptyDict, ResumeJane}

\* the HTTPException details of the two endpoints
D_no_persona_tailor == <<"No persona provided or found. Please upload resume first.">>

D_no_persona_generate == <<"No persona found">>

\* detail=str(e) of the outer except clauses
D_str_e == <<"str(e)">>

\* POST /resume/persona/{user_id}: merge into persona.json, then
\* pm.ingest_resume_data(merged); a failing write of persona.json gives 500,
\* a failing save of the unified profile is swallowed by save()
UpdateResumePersona(u, persona, io_persona, io) ==
    /\ nops < MaxOps
    /\ nops' = nops + 1
    /\ now' = now + 1
    /\ LET pm_profile == _load_profile(disk[u], now)
           merged == IF PersonaExists(u) THEN DictUpdate(persona_doc[u], persona) ELSE persona
           s == ingest_resume_data(pm_profile, disk[u], merged, now + 1, io)
       IN  IF io_persona = "ok"
           THEN /\ persona_doc' = [persona_doc EXCEPT ![u] = merged]
                /\ disk' = [disk EXCEPT ![u] = s.file]
                /\ rs' = [endpoint |-> "persona", user |-> u, given |-> TRUE, found |-> PersonaExists(u), status |-> 200, detail |-> <<>>, request |-> persona]
           ELSE /\ UNCHANGED <<persona_doc, disk>>
                /\ rs' = [endpoint |-> "persona", user |-> u, given |-> TRUE, found |-> PersonaExists(u), status |-> 500, detail |-> <<"Error updating persona">>, request |-> persona]
    /\ UNCHANGED <<redis, store, inst, lastCall, chatVars, cacheCallVars, extractVars, routeVars, contextVars, pdfVars, interviewVars, chatKeyVars, labelVars, sessionVars>>

\* tailoring requests in a run
MaxTailor == 2

JobDescriptions == {<<" ", "Q", "A", " ", "l", "e", "a", "d">>, <<"D", "e", "v">>}

\* the session file written under sessions/<ts>.json with open(path, "w"):
\* a file of that name is replaced; when makedirs or open raises nothing is
\* written
SaveSession(files, ts, session_data, io) ==
    IF io = "ok" THEN [k \in DOMAIN files \cup {ts} |-> IF k = ts THEN session_data ELSE files[k]]
    ELSE files

\* sorted(os.listdir(sessions_dir), reverse=True): the names are timestamps
\* of fixed width, so their order is the order of the timestamps
RECURSIVE SortedReverse(_)
SortedReverse(S) ==
    IF S = {} THEN <<>>
    ELSE LET m == CHOOSE x \in S : \A y \in S : y <= x
         IN  <<m>> \o SortedReverse(S \ {m})

\* GET /resume/sessions/{user_id}: one entry per session file, newest name
\* first
list_resume_sessions(files) ==
    LET names == SortedReverse(DOMAIN files)
    IN  [k \in 1..Len(names) |->
            [session_id |-> files[names[k]].session_id,
             timestamp |-> files[names[k]].timestamp,
             job_title_snippet |-> files[names[k]].job_title_snippet]]

\* POST /resume/tailor: the persona of the request, else the stored one,
\* else HTTPException(400), which `except HTTPException: raise` lets through;
\* any other exception of the body becomes a 500.  The ATS score and the
\* session file are computed inside their own try blocks: the session is
\* written under the name of the current second, and a failure to write it
\* is logged only.  elapsed: the seconds since the previous request.
TailorResume(u, persona, outcome, job_description, elapsed, io) ==
    /\ ss.nt < MaxTailor
    /\ now' = now + elapsed
    /\ LET given == persona # EmptyDict
           found == PersonaExists(u)
           ts == now'
           session_data == [session_id |-> ts, timestamp |-> ts, job_description |-> job_description,
                            job_title_snippet |-> Strip(Take(job_description, 80)),
                            persona |-> IF given THEN persona ELSE persona_doc[u]]
       IN  IF ~given /\ ~found
           THEN /\ rs' = [endpoint |-> "tailor", user |-> u, given |-> given, found |-> found, status |-> 400, detail |-> D_no_persona_tailor, request |-> persona]
                /\ ss' = [ss EXCEPT !.nt = @ + 1]
           ELSE IF outcome = "raises"
           THEN /\ rs' = [endpoint |-> "tailor", user |-> u, given |-> given, found |-> found, status |-> 500, detail |-> D_str_e, request |-> persona]
                /\ ss' = [ss EXCEPT !.nt = @ + 1]
           ELSE /\ rs' = [endpoint |-> "tailor", user |-> u, given |-> given, found |-> found, status |-> 200, detail |-> <<>>, request |-> persona]
                /\ ss' = [ss EXCEPT !.nt = @ + 1, !.files[u] = SaveSession(@, ts, session_data, io)]
    /\ UNCHANGED <<redis, store, disk, persona_doc, chatVars, cacheCallVars, personaVars, extractVars, routeVars, contextVars, pdfVars, interviewVars, chatKeyVars, labelVars>>

\* POST /resume/generate: the same lookup, but its only except clause is
\* `except Exception`, which also catches the HTTPException(400) raised in
\* the try and raises HTTPException(500, detail=str(e)) in its place
GenerateResumePdf(u, persona, outcome) ==
    /\ LET given == persona # EmptyDict
           found == PersonaExists(u)
       IN  rs' = IF ~given /\ ~found
                 THEN [endpoint |-> "generate", user |-> u, given |-> given, found |-> found, status |-> 500, detail |-> D_str_e, request |-> persona]
                 ELSE IF outcome = "raises"
                 THEN [endpoint |-> "generate", user |-> u, given |-> given, found |-> found, status |-> 500, detail |-> D_str_e, request |-> persona]
                 ELSE [endpoint |-> "generate", user |-> u, given |-> given, found |-> found, status |-> 200, detail |-> <<>>, request |-> persona]
    /\ UNCHANGED <<redis, store, disk, persona_doc, now, chatVars, cacheCallVars, personaVars, extractVars, routeVars, contextVars, pdfVars, interviewVars, chatKeyVars, labelVars, sessionVars>>

\* outcomes of agent.tailor_resume and of the PDF generation
BodyOutcomes == {"ok", "raises"}

NextResume ==
    \/ \E u \in Users, persona \in Resumes, io_persona \in {"ok", "open_fails"}, io \in IoOutcomes : UpdateResumePersona(u, persona, io_persona, io)
    \/ \E u \in Users, persona \in RequestPersonas, outcome \in BodyOutcomes : GenerateResumePdf(u, persona, outcome)

SpecResume == Init /\ [][NextResume]_vars

\* the tailoring requests and their session files, next to manual edits that
\* store a persona for one of the users
NextSessions ==
    \/ \E u \in Users, persona \in RequestPersonas, outcome \in BodyOutcomes, job_description \in JobDescriptions, elapsed \in 0..1, io \in {"ok", "open_fails"} :
           TailorResume(u, persona, outcome, job_description, elapsed, io)
    \/ UpdateResumePersona(TheUser, ResumeJane, "ok", "ok")

SpecSessions == Init /\ [][NextSessions]_vars

\* ----------------------------------------------------------------------
\* get_context_for_llm on profiles with many goals and skills
\* ----------------------------------------------------------------------
\* the largest number of goals a chat update brings, and of skills a resume
MaxGoals == 22

MaxSkills == 22

DigitChar(n) == <<"0", "1", "2", "3", "4", "5", "6", "7", "8", "9">>[n + 1]

\* n distinct entries of six characters each
Entries(n) == [k \in 1..n |-> <<"i", "t", "e", "m", DigitChar(k \div 10), DigitChar(k % 10)>>]

\* the profile of a new user after a resume with ns skills was ingested and
\* a chat update brought ng goals
ProfileWith(ng, ns) ==
    ChatMerge(IngestMerge(DefaultProfile(0), [full_name |-> N_jane, top_skills |-> Entries(ns)]), I_update_goals, [goals |-> Entries(ng)], Entries(ng))

\* pm.get_context_for_llm() on that profile, with no persona.json
RenderContext(ng, ns) ==
    /\ cx.pc = "idle"
    /\ cx' = [pc |-> "done", goals |-> ng, skills |-> ns, len |-> Len(get_context_for_llm(ProfileWith(ng, ns), EmptyDict))]
    /\ UNCHANGED <<redis, store, disk, persona_doc, now, chatVars, cacheCallVars, personaVars, extractVars, routeVars, resumeVars, pdfVars, interviewVars, chatKeyVars, labelVars, sessionVars>>

NextContext == \E ng \in 0..MaxGoals, ns \in 0..MaxSkills : RenderContext(ng, ns)

SpecContext == Init /\ [][NextContext]_vars

\* ----------------------------------------------------------------------
\* generate_pdf: what the story holds of the skills and of the bullets
\* ----------------------------------------------------------------------
\* s.split(sep)
RECURSIVE Split(_, _)
Split(s, sep) ==
    LET at == {i \in 1..Len(s) : s[i] = sep}
        i == CHOOSE j \in at : \A k \in at : j <= k
    IN  IF at = {} THEN <<s>> ELSE <<SubSeq(s, 1, i - 1)>> \o Split(SubSeq(s, i + 1, Len(s)), sep)

\* the stripped entries of a list that are not blank
Stripped(xs) == LET kept == SelectSeq(xs, LAMBDA b : Strip(b) # <<>>) IN [k \in 1..Len(kept) |-> Strip(kept[k])]

\* _bullets: tailored_bullets (a list) when it is not empty, else
\* key_achievement (a text) cut at ";" and at line ends
_bullets(exp) ==
    IF GetList(exp, "tailored_bullets") # <<>> THEN Stripped(exp.tailored_bullets)
    ELSE IF GetStr(exp, "key_achievement") # <<>>
         THEN Stripped(Split([i \in 1..Len(exp.key_achievement) |-> IF exp.key_achievement[i] = ";" THEN "\n" ELSE exp.key_achievement[i]], "\n"))
         ELSE <<>>

\* xs[:n]; max_bullets = None is written 0, which `if max_bullets:` also skips
Limit(xs, n) == IF n = 0 THEN xs ELSE Take(xs, n)

\* the bullets _exp_block puts in the story
_exp_block(exp, max_bullets) == Limit(_bullets(exp), max_bullets)

\* the skills and, per experience entry, the bullets a renderer puts in the
\* story
Story(persona, skills, max_bullets) ==
    [skills |-> skills,
     bullets |-> [k \in 1..Len(persona.experience_highlights) |-> _exp_block(persona.experience_highlights[k], max_bullets)]]

_render_professional(persona, compact) ==
    Story(persona, IF compact THEN Take(persona.top_skills, 8) ELSE persona.top_skills, IF compact THEN 2 ELSE 0)

_render_executive(persona, compact) ==
    Story(persona, Take(persona.top_skills, IF compact THEN 9 ELSE 12), IF compact THEN 3 ELSE 0)

_render_fresher(persona, compact) ==
    Story(persona, Take(persona.top_skills, IF compact THEN 6 ELSE 12), IF compact THEN 2 ELSE 3)

\* the copy of an experience entry generate_pdf makes in compact mode
Trimmed(exp) == [k \in (DOMAIN exp \cup {"tailored_bullets"}) \ {"key_achievement"} |-> IF k = "tailored_bullets" THEN Take(_bullets(exp), 2) ELSE exp[k]]

\* generate_pdf that leaves the persona untrimmed in compact mode
generate_pdf_Untrimmed(persona0, template0, page_count) ==
    LET template == IF template0 \in {"professional", "executive", "fresher"} THEN template0 ELSE "professional"
        compact == (page_count = 1)
    IN  IF template = "executive" THEN _render_executive(persona0, compact)
        ELSE IF template = "fresher" THEN _render_fresher(persona0, compact)
        ELSE _render_professional(persona0, compact)

\* generate_pdf up to doc.build(story)
generate_pdf(persona0, template0, page_count) ==
    LET template == IF template0 \in {"professional", "executive", "fresher"} THEN template0 ELSE "professional"
        compact == (page_count = 1)
        flat == [k \in DOMAIN persona0 |->
                    IF k = "top_skills" /\ "tailored_skills" \in DOMAIN persona0 THEN persona0.tailored_skills
                    ELSE IF k = "experience_highlights" /\ "tailored_experience" \in DOMAIN persona0 THEN persona0.tailored_experience
                    ELSE persona0[k]]
        persona == IF compact
                   THEN [flat EXCEPT !.experience_highlights = [k \in 1..Len(@) |-> Trimmed(@[k])],
                                     !.top_skills = Take(@, 8)]
                   ELSE flat
    IN  IF template = "executive" THEN _render_executive(persona, compact)
        ELSE IF template = "fresher" THEN _render_fresher(persona, compact)
        ELSE _render_professional(persona, compact)

\* experience entries in a persona, and skills in it
MaxEntries == 2

MaxPdfSkills == 10

B_a == <<"a">>

B_blank == <<" ">>

\* experience entries: no bullet, four bullets in a list with a blank one
\* among them, four bullets in a text, one bullet next to a text
ExpEntries ==
    {[role |-> T_dev, tailored_bullets |-> <<>>, key_achievement |-> <<>>],
     [role |-> T_dev, tailored_bullets |-> <<B_a, B_blank, <<"b">>, <<" ", "c">>, <<"d">>>>, key_achievement |-> <<"x">>],
     [role |-> T_lead, key_achievement |-> <<"a", ";", "b", "\n", "c", ";", " ", "d", ";">>],
     [role |-> T_lead, tailored_bullets |-> <<B_a>>, key_achievement |-> <<"x", ";", "y", ";", "z">>]}

PdfPersonas ==
    {[top_skills |-> Entries(n), experience_highlights |-> e] :
        n \in 0..MaxPdfSkills, e \in UNION {[1..m -> ExpEntries] : m \in 0..MaxEntries}}
    \cup {[top_skills |-> <<>>, tailored_skills |-> Entries(MaxPdfSkills), experience_highlights |-> <<>>,
            tailored_experience |-> <<e>>] : e \in ExpEntries}

Templates == {"professional", "executive", "fresher", "classic"}

\* one call of generate_pdf
GeneratePdf(persona, template, page_count) ==
    /\ pdf.pc = "idle"
    /\ LET story == generate_pdf(persona, template, page_count)
       IN  pdf' = [pc |-> "done", template |-> template, page_count |-> page_count, persona |-> persona,
                   skills |-> story.skills, bullets |-> story.bullets]
    /\ UNCHANGED <<redis, store, disk, persona_doc, now, chatVars, cacheCallVars, personaVars, extractVars, routeVars, resumeVars, contextVars, interviewVars, chatKeyVars, labelVars, sessionVars>>

NextPdf == \E persona \in PdfPersonas, template \in Templates, page_count \in 1..2 : GeneratePdf(persona, template, page_count)

SpecPdf == Init /\ [][NextPdf]_vars

\* ----------------------------------------------------------------------
\* InterviewSimulator: one session, its questions and its history
\* ----------------------------------------------------------------------
\* questions in each bank
BankSize == 5

\* the k-th question of a bank
Q(type, k) == <<type, DigitChar(k)>>

question_banks == [type \in {"behavioral", "technical", "situational"} |-> [k \in 1..BankSize |-> Q(type, k)]]

\* `>= 10` of get_next_question
MaxQuestions == 10

\* _get_next_question: the type at current_index in the rotation (behavioral
\* when it has no bank), the question at current_index in its bank
_get_next_question(session) ==
    LET question_types == session.question_types
        current_index == session.current_question_index
        t == question_types[(current_index % Len(question_types)) + 1]
        question_type == IF t \in DOMAIN question_banks THEN t ELSE "behavioral"
        questions == question_banks[question_type]
    IN  [question |-> questions[(current_index % Len(questions)) + 1],
         type |-> question_type,
         index |-> current_index + 1]

\* get_next_question: None once current_question_index has reached 10, else
\* the question at the index, and the index moves on
get_next_question(session) ==
    IF session.current_question_index >= MaxQuestions
    THEN [session |-> session, none |-> TRUE, question |-> [question |-> <<>>, type |-> "none", index |-> 0]]
    ELSE [session |-> [session EXCEPT !.current_question_index = @ + 1], none |-> FALSE, question |-> _get_next_question(session)]

\* what the reasoning model answers: JSON carrying a score, JSON without
\* one, or text that json.loads rejects; or the call raises
EvalOutcomes == {"json_85", "json_empty", "prose", "raises"}

\* _parse_evaluation: `evaluation.get('overall_score') or 70`, and the
\* fallback evaluation of the bare except
_parse_evaluation(response) ==
    IF response = "json_85" THEN [overall_score |-> 85, strengths |-> <<>>]
    ELSE IF response = "json_empty" THEN [overall_score |-> 70, strengths |-> <<>>]
    ELSE [overall_score |-> 70, strengths |-> <<"Answer provided">>]

\* evaluate_answer that puts the record in front of the history
evaluate_answer_Prepend(session, question, answer, question_type, outcome, at) ==
    IF outcome = "raises" THEN session
    ELSE [session EXCEPT !.questions_asked =
              <<[question |-> question, type |-> question_type, answer |-> answer,
                 evaluation |-> _parse_evaluation(outcome), timestamp |-> at]>> \o @]

\* evaluate_answer: llm.ainvoke raises before the session is touched, else
\* the record is appended to session['questions_asked']
evaluate_answer(session, question, answer, question_type, outcome, at) ==
    IF outcome = "raises" THEN session
    ELSE [session EXCEPT !.questions_asked =
              Append(@, [question |-> question, type |-> question_type, answer |-> answer,
                         evaluation |-> _parse_evaluation(outcome), timestamp |-> at])]

\* get_next_question calls and evaluate_answer calls on the session
MaxNext == 12

MaxAnswers == 2

\* question_types of start_session: the default, all three banks, one
\* bank, and an empty list
QuestionTypes == {<<"behavioral", "technical">>, <<"behavioral", "technical", "situational">>, <<"situational">>, <<>>}

Answers == {<<"a">>, <<>>}

\* start_session: the session dict and its first question; an empty
\* question_types raises ZeroDivisionError in _get_next_question
StartSession(question_types) ==
    /\ iv.pc = "none"
    /\ iv' = IF question_types = <<>>
             THEN [iv EXCEPT !.pc = "raised", !.lastop = "start", !.outcome = "raises"]
             ELSE LET session == [question_types |-> question_types, questions_asked |-> <<>>,
                                  current_question_index |-> 0, started_at |-> now]
                  IN  [iv EXCEPT !.pc = "open", !.session = session,
                                 !.handed = <<_get_next_question(session)>>,
                                 !.lastop = "start", !.outcome = "ok"]
    /\ UNCHANGED <<redis, store, disk, persona_doc, now, chatVars, cacheCallVars, personaVars, extractVars, routeVars, resumeVars, contextVars, pdfVars, chatKeyVars, labelVars, sessionVars>>

\* one get_next_question call on the session
GetNextQuestion ==
    /\ iv.pc = "open"
    /\ iv.calls < MaxNext
    /\ LET r == get_next_question(iv.session)
       IN  iv' = [iv EXCEPT !.session = r.session,
                            !.handed = IF r.none THEN @ ELSE Append(@, r.question),
                            !.nones = IF r.none THEN @ + 1 ELSE @,
                            !.calls = @ + 1,
                            !.lastop = "next",
                            !.outcome = IF r.none THEN "none" ELSE "ok"]
    /\ UNCHANGED <<redis, store, disk, persona_doc, now, chatVars, cacheCallVars, personaVars, extractVars, routeVars, resumeVars, contextVars, pdfVars, chatKeyVars, labelVars, sessionVars>>

\* one evaluate_answer call on the session, on the question handed out last
EvaluateAnswer(answer, outcome) ==
    /\ iv.pc = "open"
    /\ iv.answers < MaxAnswers
    /\ iv' = [iv EXCEPT !.session = evaluate_answer(@, iv.handed[Len(iv.handed)].question, answer, iv.handed[Len(iv.handed)].type, outcome, now),
                        !.answers = @ + 1,
                        !.lastop = "evaluate",
                        !.outcome = outcome]
    /\ UNCHANGED <<redis, store, disk, persona_doc, now, chatVars, cacheCallVars, personaVars, extractVars, routeVars, resumeVars, contextVars, pdfVars, chatKeyVars, labelVars, sessionVars>>

NextInterview ==
    \/ \E question_types \in QuestionTypes : StartSession(question_types)
    \/ GetNextQuestion
    \/ \E answer \in Answers, outcome \in EvalOutcomes : EvaluateAnswer(answer, outcome)

SpecInterview == Init /\ [][NextInterview]_vars

\* ----------------------------------------------------------------------
\* The cache keys of two chat requests
\* ----------------------------------------------------------------------
\* user ids that differ in case only, and user ids with and without a ':'
KeyUsers == {U_1, <<"U", "1">>, <<"u">>, <<"u", ":", "1">>}

KeyMessages == {M_hello, <<"1", ":", "h", "i">>, <<"h", "i">>}

\* cache.set("chat", f"{user_id}:{message}", ...) at the end of a first
\* request, cache.get("chat", f"{user_id}:{message}") at the start of a
\* second one, Redis answering both
ChatKeys(u1, m1, u2, m2) ==
    /\ ck.pc = "idle"
    /\ LET after == CacheSet(TRUE, EmptyStore, TRUE, TtlTicks, A_chat, ChatQuery(u1, m1), JsonDumps([response |-> R_ok, agent |-> A_profile])).store
           cached_response == CacheGet(TRUE, after, TRUE, A_chat, ChatQuery(u2, m2)).ret
       IN  ck' = [pc |-> "done",
                  first |-> [user_id |-> u1, message |-> m1],
                  second |-> [user_id |-> u2, message |-> m2],
                  same_key |-> (_generate_key(A_chat, ChatQuery(u1, m1)) = _generate_key(A_chat, ChatQuery(u2, m2))),
                  cached_response |-> cached_response]
    /\ UNCHANGED <<redis, store, disk, persona_doc, now, chatVars, cacheCallVars, personaVars, extractVars, routeVars, resumeVars, contextVars, pdfVars, interviewVars, labelVars, sessionVars>>

NextChatKeys == \E u1 \in KeyUsers, u2 \in KeyUsers, m1 \in KeyMessages, m2 \in KeyMessages : ChatKeys(u1, m1, u2, m2)

SpecChatKeys == Init /\ [][NextChatKeys]_vars

\* ----------------------------------------------------------------------
\* The agent run and the agent name reported, by what supervisor.run returned
\* ----------------------------------------------------------------------
\* what `await self.supervisor.run(state)` may hand back to the workflow: a
\* state with a valid label, with a label that is no agent, with an empty or
\* None label, or without the key
RoutedStates == {[active_agent |-> a] : a \in Agents \cup {R_banana, <<>>, None}} \cup {EmptyDict}

\* HaystackWorkflow.ainvoke and chat(): the label is validated, the agent of
\* that name runs and returns {**state, "final_output": ...}, and
\* ChatResponse.agent is result.get("active_agent", "unknown")
AinvokeRun(m, routed_state) ==
    LET route == AinvokeKeywordRoute(Lower(m))
        active_agent_name == AinvokeValidate(IF route # None THEN route ELSE Get(routed_state, "active_agent"))
    IN  [ran |-> active_agent_name, reported |-> active_agent_name]

\* HaystackWorkflow.astream_events and generate(): the on_chain_end event
\* carries routed_state.get("active_agent", "profile") as it is, generate()
\* sends it in the "agent" frame, and self.agents.get(name, profile) runs
AstreamRun(m, routed_state) ==
    LET route == AstreamKeywordRoute(Lower(m))
        active_agent_name == IF route # None THEN route
                             ELSE IF "active_agent" \in DOMAIN routed_state THEN routed_state.active_agent
                             ELSE A_profile
    IN  [ran |-> IF active_agent_name \in Agents THEN active_agent_name ELSE A_profile,
         reported |-> active_agent_name]

\* one run of the workflow through either entry point
RunWorkflow(entry, m, routed_state) ==
    /\ lb.pc = "idle"
    /\ LET r == IF entry = "ainvoke" THEN AinvokeRun(m, routed_state) ELSE AstreamRun(m, routed_state)
       IN  lb' = [pc |-> "done", entry |-> entry, message |-> m, routed_state |-> routed_state,
                  ran |-> r.ran, reported |-> r.reported]
    /\ UNCHANGED <<redis, store, disk, persona_doc, now, chatVars, cacheCallVars, personaVars, extractVars, routeVars, resumeVars, contextVars, pdfVars, interviewVars, chatKeyVars, sessionVars>>

NextLabel == \E entry \in {"ainvoke", "astream_events"}, m \in RouteMessages, routed_state \in RoutedStates : RunWorkflow(entry, m, routed_state)

SpecLabel == Init /\ [][NextLabel]_vars

\* ----------------------------------------------------------------------
\* Properties
\* ----------------------------------------------------------------------
\* the frame types of the streaming contract and its terminal frames
FrameTypes == {"start", "agent", "chunk", "done", "error"}

TerminalTypes == {"done", "error"}

\* C1: routing is total: once the keyword match left the choice to the
\* supervisor, the supervisor step selects one of the five agents and does
\* not raise; in particular it selects "profile" when the model call fails.
C1_RoutingTotal == [][(pc = "supervisor") => (pc' = "agent" /\ wf'.active_agent \in Agents)]_vars

\* C2: a finished /chat/stream response consists of frames of the five
\* contract types, holds exactly one terminal frame (done or error), and
\* that frame is the last one.
C2_StreamFrames ==
    (req.kind = "stream" /\ pc = "idle") =>
        /\ \A i \in 1..Len(frames) : frames[i].type \in FrameTypes
        /\ Cardinality({i \in 1..Len(frames) : frames[i].type \in TerminalTypes}) = 1
        /\ frames # <<>> /\ frames[Len(frames)].type \in TerminalTypes

\* C5: a model-call error while serving POST /chat is turned into a
\* fallback reply: every finished /chat request was answered successfully.
C5_ChatNeverFails == (req.kind = "chat" /\ pc = "idle") => http.status = 200

\* the cache key of the request being served
ReqKey(r) == _generate_key(A_chat, ChatQuery(r.user_id, r.message))

\* C8: in POST /chat the cache is read before the workflow starts; a hit
\* with a parseable entry is answered from the cache without any model
\* call; the cache is written only in the step in which the workflow
\* completed successfully, with that response, and a failed run (500)
\* writes nothing.
C8_CacheAroundWorkflow ==
    [][(req'.kind = "chat") =>
        /\ (nreq' # nreq) =>
              /\ req'.cached_response \in {None} \cup {store[k].val : k \in DOMAIN store \cap {ReqKey(req')}}
              /\ (Truthy(req'.cached_response) /\ JsonLoads(req'.cached_response).ok) =>
                    /\ pc' = "idle" /\ calls' = 0
                    /\ http' = [status |-> 200, response |-> JsonLoads(req'.cached_response).data.response, agent |-> JsonLoads(req'.cached_response).data.agent]
              /\ store' = store
        /\ (calls' > 0) => ~(Truthy(req'.cached_response) /\ JsonLoads(req'.cached_response).ok)
        /\ (store' # store) =>
              /\ pc = "agent" /\ pc' = "idle" /\ http'.status = 200
              /\ store' = RedisSetex(store, ReqKey(req), TtlTicks, JsonDumps([response |-> http'.response, agent |-> http'.agent]))
        /\ (http'.status = 500) => store' = store
    ]_vars

\* C8 witness: a /chat request answered from the cache with no model call
C8_Witness == req.kind = "chat" /\ pc = "idle" /\ http.status = 200 /\ calls = 0 /\ Truthy(req.cached_response) /\ http.response = R_ok

\* C6: when the store was unreachable at construction (redis is None) or
\* fails during a call, get returns None, set and clear change nothing, and
\* no exception leaves get, set or clear; a cache built without a store
\* stays without one, so it misses for the life of the instance.
C6_CacheDegrades ==
    /\ [](cres.op \in {"get", "set", "clear"} =>
            /\ ~cres.raised
            /\ (~redis \/ ~cres.ok) => (cres.ret = None /\ ~cres.changed))
    /\ [][~redis => (~redis' /\ store' = store)]_vars

\* C6 witness: a get that fails at the server while its entry is stored
C6_Witness == cres.op = "get" /\ redis /\ ~cres.ok /\ _generate_key(cres.agent, cres.query) \in DOMAIN store /\ cres.ret = None

\* the last set() was for the (agent, query) of the get() just made
GetAfterSet == cres.op = "get" /\ lastSet.set /\ lastSet.agent = cres.agent /\ lastSet.query = cres.query

\* C7 as stated: a get following set(agent, query, v) returns exactly v before
\* the TTL has elapsed and None once it has.
C7_SetThenGet == GetAfterSet => cres.ret = IF lastSet.age < TtlTicks THEN lastSet.val ELSE None

\* C7 as amended: the same, provided the cache has a client and the server
\* answered both calls, and v is not the empty string; an empty v, a cache
\* without a client or a failed call reads back as None.
C7_SetThenGetReachable ==
    /\ (GetAfterSet /\ lastSet.ok /\ cres.ok) => cres.ret = IF lastSet.age < TtlTicks /\ lastSet.val # <<>> THEN lastSet.val ELSE None
    /\ (GetAfterSet /\ ~cres.ok) => cres.ret = None

\* C7 witness: a value read back one tick after it was set
C7_Witness == GetAfterSet /\ lastSet.age = 1 /\ cres.ret = R_ok

\* no two entries of a list are equal when compared case-insensitively
NoCaseDuplicates(xs) == \A a, b \in 1..Len(xs) : a # b => Lower(xs[a]) # Lower(xs[b])

\* C3: profile['skills'] never holds two entries equal up to letter case.
C3_SkillsCaseUnique == \A i \in Instances : NoCaseDuplicates(inst[i].skills)

\* the profile a fresh PersonaManager would load now
FreshLoad == _load_profile(disk[TheUser], now)

ProfileFields == {"identity", "skills", "experience", "projects", "education", "goals", "job_preferences"}

\* the keys a call never assigns
Untouched(call) ==
    IF call.kind = "ingest" THEN {"goals", "job_preferences"}
    ELSE IF call.intent = I_update_goals THEN ProfileFields \ {"goals"}
    ELSE IF call.intent = I_update_skills THEN ProfileFields \ {"skills"}
    ELSE ProfileFields \ {"job_preferences"}

\* C10: writers are last-write-wins: a save that succeeds leaves in the file
\* the whole in-memory profile of the saving instance; what the file held
\* before plays no part, so every key the call did not assign is persisted
\* as the saver had it in memory when it was loaded or last saved.
C10_LastWriteWins ==
    [][(now' # now /\ lastCall'.io = "ok") =>
        /\ disk'[TheUser] = JsonFile(inst'[lastCall'.inst])
        /\ \A f \in Untouched(lastCall') : disk'[TheUser].profile[1][f] = inst[lastCall'.inst][f]
    ]_vars

\* C10 witness: instance j saved a goal, then instance i, which had loaded
\* before, saved its own profile: the file no longer holds j's goal
C10_Witness == \E i, j \in Instances : i # j /\ lastCall.inst = i /\ lastCall.io = "ok" /\ lastCall.saved[j] /\ inst[j].goals # <<>> /\ disk[TheUser].kind = "json" /\ disk[TheUser].profile[1].goals = <<>>

\* a text no part of which is a JSON value
NonJsonBearing(t) == \A i \in 1..Len(t) : \A j \in i..Len(t) : ~json_loads(SubSeq(t, i, j)).ok

\* C4: extract_persona never raises, in either service; when the model call
\* raised, or its output is empty or holds no JSON, it returns the fallback
\* persona of its service
C4_ExtractNeverRaises ==
    ex.pc = "done" =>
        /\ ~ex.result.raised
        /\ (ex.outcome.raised \/ NonJsonBearing(ex.outcome.content)) =>
               /\ ex.result.fallback
               /\ ex.result.val = IF ex.impl = "haystack" THEN FallbackHaystack ELSE FallbackAi

\* C4, the part the code keeps: a reply of the model, whatever its text,
\* never makes extract_persona raise, and a reply holding no JSON gives the
\* fallback persona
C4_RepliesNeverRaise ==
    (ex.pc = "done" /\ ~ex.outcome.raised) =>
        /\ ~ex.result.raised
        /\ NonJsonBearing(ex.outcome.content) => (ex.result.fallback /\ ex.result.val = IF ex.impl = "haystack" THEN FallbackHaystack ELSE FallbackAi)

\* C11: every chat turn, once its handler has finished, has fired exactly one
\* persona update (one awaited analyze_convo); the update is fired only when
\* the reply's terminal frame has been sent, and the step of the update
\* leaves the frames and the HTTP answer as they were
C11_OneUpdatePerTurn ==
    /\ []((pc = "idle" /\ req.kind # "none") => updates = 1)
    /\ [][(updates' = updates + 1) =>
             /\ \E k \in 1..Len(frames') : frames'[k].type \in TerminalTypes
             /\ (pc = "update" => (frames' = frames /\ http' = http))]_vars

\* the scan order of the deterministic routing and the keywords of each
\* category
ScanOrder == <<
    [agent |-> A_resume,     words |-> <<<<"r", "e", "s", "u", "m", "e">>, <<"c", "v">>, <<"r", "e", "v", "i", "e", "w", " ", "m", "y">>>>],
    [agent |-> A_job_search, words |-> <<<<"j", "o", "b">>, <<"a", "p", "p", "l", "y">>, <<"s", "e", "a", "r", "c", "h">>>>],
    [agent |-> A_learning,   words |-> <<<<"l", "e", "a", "r", "n">>, <<"c", "o", "u", "r", "s", "e">>, <<"c", "e", "r", "t", "i", "f">>>>],
    [agent |-> A_skills_gap, words |-> <<<<"s", "k", "i", "l", "l", "s">>, <<"g", "a", "p">>, <<"m", "i", "s", "s", "i", "n", "g">>>>] >>

\* the categories with a keyword in the lowercased message
Matching(m) == {k \in 1..Len(ScanOrder) : \E w \in 1..Len(ScanOrder[k].words) : Contains(Lower(m), ScanOrder[k].words[w])}

\* C12: when some category has a keyword in the message, the first such
\* category in the order resume, job_search, learning, skills_gap is selected
\* and the supervisor's model is not called, in ainvoke and in astream_events
\* alike; so a message containing "review my resume" goes to resume
C12_FirstCategoryWins ==
    rt.pc = "done" =>
        /\ Matching(rt.message) # {} =>
               /\ \E k \in Matching(rt.message) : (\A j \in Matching(rt.message) : k <= j) /\ rt.active_agent = ScanOrder[k].agent
               /\ ~rt.supervisor_called
               /\ ~rt.raised
        /\ Contains(Lower(rt.message), <<"r", "e", "v", "i", "e", "w", " ", "m", "y", " ", "r", "e", "s", "u", "m", "e">>) => rt.active_agent = A_resume

\* C12 witness: astream_events routed a message holding "review my resume"
\* and a job_search keyword
C12_Witness ==
    /\ rt.pc = "done" /\ rt.entry = "astream_events" /\ rt.active_agent = A_resume
    /\ Contains(Lower(rt.message), <<"r", "e", "v", "i", "e", "w", " ", "m", "y", " ", "r", "e", "s", "u", "m", "e">>)
    /\ 2 \in Matching(rt.message)

\* the keyword heuristic of the supervisor on a text: the first entry of its
\* keywords with a word in the lowercased text, None when there is none
Heuristic(text) ==
    LET hits == {k \in 1..Len(SupervisorKeywords) : \E w \in 1..Len(SupervisorKeywords[k].words) : Contains(Lower(text), SupervisorKeywords[k].words[w])}
    IN  IF hits = {} THEN None ELSE SupervisorKeywords[CHOOSE k \in hits : \A j \in hits : k <= j].agent

\* C13: when the supervisor's normalized reply is not a valid label, the
\* selected agent is the heuristic's answer on the reply text, else the
\* heuristic's answer on the user message, else profile
C13_ReplyThenMessage ==
    (rt.pc = "done" /\ rt.supervisor_called /\ ~rt.outcome.raised /\ CleanDecision(rt.outcome.content) \notin valid_agents) =>
        rt.active_agent = IF Heuristic(rt.outcome.content) # None THEN Heuristic(rt.outcome.content)
                          ELSE IF Heuristic(rt.message) # None THEN Heuristic(rt.message)
                          ELSE A_profile

\* C14: on a reply that is valid JSON text with no markdown fence,
\* _parse_json of haystack-service returns what json.loads returns on the
\* reply, also when a string value holds a comma followed by a closing brace
\* and when the top-level value is not an object
C14_ValidJsonDirectParse ==
    (ex.pc = "done" /\ ex.impl = "haystack" /\ ~ex.outcome.raised /\ ~Contains(ex.outcome.content, F_fence) /\ json_loads(ex.outcome.content).ok) =>
        /\ _parse_json(ex.outcome.content) = json_loads(ex.outcome.content)
        /\ ex.result = [raised |-> FALSE, fallback |-> FALSE, val |-> json_loads(ex.outcome.content).val]

\* the text without its i-th character
Delete(t, i) == SubSeq(t, 1, i - 1) \o SubSeq(t, i + 1, Len(t))

\* the commas of t that stand immediately before a closing brace and whose
\* deletion alone makes t valid JSON
TrailingCommas(t) == {i \in 1..(Len(t) - 1) : t[i] = "," /\ t[i + 1] = "}" /\ json_loads(Delete(t, i)).ok}

\* C15: on a reply whose only defect is one trailing comma immediately
\* before a closing brace, extract_persona of either service returns the
\* object that json.loads gives once that comma is deleted
C15_TrailingCommaRepaired ==
    (ex.pc = "done" /\ ~ex.outcome.raised /\ ~json_loads(ex.outcome.content).ok /\ Cardinality(TrailingCommas(ex.outcome.content)) = 1) =>
        \A i \in TrailingCommas(ex.outcome.content) :
            ex.result = [raised |-> FALSE, fallback |-> FALSE, val |-> json_loads(Delete(ex.outcome.content, i)).val]

\* the value a resume supplies under the first of the keys that holds a
\* non-empty one; empty when it supplies none
Supplied(resume_data, keys) ==
    LET full == {n \in 1..Len(keys) : keys[n] \in DOMAIN resume_data /\ resume_data[keys[n]] # <<>>}
    IN  IF full = {} THEN <<>> ELSE resume_data[keys[CHOOSE n \in full : \A j \in full : n <= j]]

\* the resume keys read for each identity field
IdentityKeys ==
    [full_name |-> <<"full_name", "name">>, professional_title |-> <<"professional_title", "title">>, email |-> <<"email">>,
     phone |-> <<"phone">>, location |-> <<"location">>, linkedin |-> <<"linkedin">>, portfolio_url |-> <<"portfolio_url">>,
     summary |-> <<"summary">>]

\* what one ingestion of resume_data does to profile p, giving q
IngestEffect(p, q, resume_data) ==
    /\ \A f \in DOMAIN IdentityKeys :
           q.identity[f] = IF Supplied(resume_data, IdentityKeys[f]) # <<>> THEN Supplied(resume_data, IdentityKeys[f]) ELSE p.identity[f]
    /\ q.experience = IF Supplied(resume_data, <<"experience_highlights", "experience">>) # <<>>
                      THEN Supplied(resume_data, <<"experience_highlights", "experience">>) ELSE p.experience
    /\ q.education = IF Supplied(resume_data, <<"education">>) # <<>> THEN Supplied(resume_data, <<"education">>) ELSE p.education
    /\ q.goals = p.goals
    /\ q.job_preferences = p.job_preferences

\* C16: ingest_resume_data overwrites each identity field, the experience
\* list and the education list with the resume's value exactly when the
\* resume supplies a non-empty one; a field the resume omits or supplies
\* empty keeps its stored value, and goals and job_preferences always do
C16_IngestOverwritesWhenSupplied ==
    [][(now' # now /\ lastCall'.kind = "ingest") => IngestEffect(inst[lastCall'.inst], inst'[lastCall'.inst], lastCall'.data)]_vars

\* C16 witness: after the resume of Jane, the resume of QA was ingested by
\* the same instance: its name was overwritten, while the title, the summary
\* and the experience, which that resume supplies empty or omits, were kept
C16_Witness ==
    \E i \in Instances :
        /\ lastCall.kind = "ingest" /\ lastCall.inst = i
        /\ inst[i].identity.full_name = N_qa
        /\ inst[i].identity.professional_title = T_dev
        /\ inst[i].identity.summary = T_lead
        /\ inst[i].experience = <<Exp_dev>>
        /\ inst[i].education = <<Edu_bs>>

\* C17: ingest_resume_data unions the resume's skills into the stored ones:
\* every skill held before the ingestion, and every skill of the resume, is
\* held afterwards
C17_IngestUnionsSkills ==
    [][(now' # now /\ lastCall'.kind = "ingest") =>
           (SetOf(inst[lastCall'.inst].skills) \cup SetOf(Supplied(lastCall'.data, <<"top_skills", "skills">>))) \subseteq SetOf(inst'[lastCall'.inst].skills)]_vars

\* the step taken is an update_from_chat with intent update_goals or
\* update_skills (only the two PersonaManager calls let the clock advance)
ListUpdate == now' # now /\ lastCall'.kind = "update" /\ lastCall'.intent \in {I_update_goals, I_update_skills}

\* the list of instance i that the update of the step adds to
Before(i) == inst[i][ListKey(lastCall'.intent)]

After(i) == inst'[i][ListKey(lastCall'.intent)]

\* C18 as stated: update_from_chat with intent update_goals or
\* update_skills leaves in the list exactly the previous entries plus the
\* new ones, and applying the same update a second time changes nothing:
\* the list is the one it was
C18_ChatUnionIdempotent ==
    [][ListUpdate =>
           /\ SetOf(After(lastCall'.inst)) = SetOf(Before(lastCall'.inst)) \cup SetOf(lastCall'.data[ListKey(lastCall'.intent)])
           /\ lastCall'.again => After(lastCall'.inst) = Before(lastCall'.inst)]_vars

\* C18 as amended: the same with the lists read as sets of entries: a second
\* application leaves the set of entries, every other field of the profile
\* and meta.sources as they were, while the order of the list may change
C18_ChatUnionAsSets ==
    [][ListUpdate =>
           /\ SetOf(After(lastCall'.inst)) = SetOf(Before(lastCall'.inst)) \cup SetOf(lastCall'.data[ListKey(lastCall'.intent)])
           /\ lastCall'.again =>
                  /\ SetOf(After(lastCall'.inst)) = SetOf(Before(lastCall'.inst))
                  /\ \A f \in ProfileFields \ {ListKey(lastCall'.intent)} : inst'[lastCall'.inst][f] = inst[lastCall'.inst][f]
                  /\ inst'[lastCall'.inst].meta.sources = inst[lastCall'.inst].meta.sources]_vars

\* C18 witness: an instance holding a skill from a resume applied the
\* update_skills update twice in a row
C18_Witness ==
    \E i \in Instances :
        /\ lastCall.kind = "update" /\ lastCall.inst = i /\ lastCall.again /\ lastCall.intent = I_update_skills
        /\ SetOf(inst[i].skills) = {S_Python, S_python, S_Go}

\* C19: when the request carries no persona and no persona.json is stored
\* for the user, POST /resume/tailor and POST /resume/generate answer with a
\* 4xx status and a descriptive detail, never with a 5xx
C19_NoPersonaIsClientError ==
    (rs.endpoint \in {"tailor", "generate"} /\ ~rs.given /\ ~rs.found) =>
        /\ rs.status \in 400..499
        /\ rs.detail \in {D_no_persona_tailor, D_no_persona_generate}

\* q without its leading and trailing whitespace, as a pair of bounds
Core(q) ==
    LET inner == {i \in 1..Len(q) : q[i] \notin Whitespace}
    IN  IF inner = {} THEN <<>>
        ELSE SubSeq(q, CHOOSE i \in inner : \A j \in inner : i <= j, CHOOSE i \in inner : \A j \in inner : i >= j)

\* two queries are equal once lowercased and stripped of surrounding
\* whitespace
SameQuery(q1, q2) ==
    /\ Len(Core(q1)) = Len(Core(q2))
    /\ \A k \in 1..Len(Core(q1)) : LowerChar(Core(q1)[k]) = LowerChar(Core(q2)[k])

\* the (agent, query) pairs whose entry a cache call may touch
CachePairs == CacheAgents \X CacheLookups

\* C20: two (agent, query) pairs have the same cache key exactly when their
\* agents are equal and their queries are equal after lowercasing and
\* stripping; so a value set under one query is read back under a query that
\* differs in letter case or outer whitespace only, and a set changes the
\* entry of no pair with another agent or another normalised query
C20_KeyPerAgentAndNormalQuery ==
    /\ []((lastSet.set /\ cres.op \in {"get", "set"}) =>
              ((_generate_key(lastSet.agent, lastSet.query) = _generate_key(cres.agent, cres.query))
                   <=> (lastSet.agent = cres.agent /\ SameQuery(lastSet.query, cres.query))))
    /\ []((cres.op = "get" /\ cres.ok /\ lastSet.set /\ lastSet.ok /\ lastSet.age < TtlTicks /\ lastSet.val # <<>>
            /\ cres.agent = lastSet.agent /\ SameQuery(cres.query, lastSet.query)) => cres.ret = lastSet.val)
    /\ [][cres'.op = "set" =>
             \A x \in CachePairs :
                 (x[1] # cres'.agent \/ ~SameQuery(x[2], cres'.query)) =>
                     RedisGet(store', _generate_key(x[1], x[2])) = RedisGet(store, _generate_key(x[1], x[2]))]_vars

\* C20 witness: a value set under " Hello " was read back under "hello" by
\* the same agent, while the other agent holds no entry for it
C20_Witness ==
    /\ cres.op = "get" /\ cres.ok /\ cres.query = M_hello /\ cres.ret = R_ok
    /\ lastSet.set /\ lastSet.ok /\ lastSet.query = M_hello_sp /\ lastSet.agent = cres.agent
    /\ \E a \in CacheAgents : a # cres.agent /\ RedisGet(store, _generate_key(a, M_hello)) = None

ContextBound == Len(get_context_for_llm(ProfileWith(SkillsLimit, SkillsLimit), EmptyDict))

\* C22: the text returned by get_context_for_llm is no longer than a fixed
\* constant, however many goals and skills the profile has accumulated
C22_ContextBounded == cx.pc = "done" => cx.len <= ContextBound

\* the bullets an entry holds: the non-blank items of its list, or the
\* non-blank pieces of its text
BulletCount(exp) ==
    IF GetList(exp, "tailored_bullets") # <<>>
    THEN Cardinality({k \in 1..Len(exp.tailored_bullets) : \E c \in 1..Len(exp.tailored_bullets[k]) : exp.tailored_bullets[k][c] \notin Whitespace})
    ELSE LET t == GetStr(exp, "key_achievement")
             Cut(i) == i = 0 \/ i = Len(t) + 1 \/ t[i] \in {";", "\n"}
         IN  Cardinality({i \in 0..Len(t) : Cut(i) /\ \E j \in (i + 1)..Len(t) : t[j] \notin Whitespace \cup {";"} /\ \A k \in (i + 1)..j : ~Cut(k)})

\* the experience entries and the skills of the persona once its tailored
\* fields are flattened
PdfEntries == IF "tailored_experience" \in DOMAIN pdf.persona THEN pdf.persona.tailored_experience ELSE pdf.persona.experience_highlights

PdfSkills == IF "tailored_skills" \in DOMAIN pdf.persona THEN pdf.persona.tailored_skills ELSE pdf.persona.top_skills

\* C23: with page_count = 1 generate_pdf puts at most 2 bullets per
\* experience entry and at most 8 skills in the story, for every template;
\* with another page_count the professional and executive templates put
\* every bullet of every entry in it
C23_PdfLimits ==
    pdf.pc = "done" =>
        /\ pdf.page_count = 1 =>
               /\ \A k \in 1..Len(pdf.bullets) : Len(pdf.bullets[k]) <= 2
               /\ Len(pdf.skills) <= 8
        /\ (pdf.page_count # 1 /\ pdf.template \in {"professional", "executive"}) =>
               /\ Len(pdf.bullets) = Len(PdfEntries)
               /\ \A k \in 1..Len(pdf.bullets) : Len(pdf.bullets[k]) = BulletCount(PdfEntries[k])

\* C23 witness: the executive template in compact mode, on an entry of four
\* bullets and ten skills: two bullets and eight skills are in the story
C23_Witness ==
    /\ pdf.pc = "done" /\ pdf.template = "executive" /\ pdf.page_count = 1
    /\ Len(PdfSkills) = 10 /\ Len(pdf.skills) = 8
    /\ \E k \in 1..Len(pdf.bullets) : BulletCount(PdfEntries[k]) = 4 /\ Len(pdf.bullets[k]) = 2

\* C24: a manual edit answered with success leaves in persona.json the
\* previous document with every top-level key of the request overwritten
\* by the request's value and every other key as it was (the request
\* itself when there was no document), leaves the documents of the other
\* users alone, and ingests the unified profile loaded from disk from the
\* merged document
C24_ManualEditShallowMerge ==
    [][(now' # now /\ rs'.endpoint = "persona" /\ rs'.status = 200) =>
           LET u == rs'.user
               request == rs'.request
               old == persona_doc[u]
               merged == persona_doc'[u]
           IN  /\ DOMAIN merged = DOMAIN old \cup DOMAIN request
               /\ \A k \in DOMAIN request : merged[k] = request[k]
               /\ \A k \in DOMAIN old \ DOMAIN request : merged[k] = old[k]
               /\ \A v \in Users \ {u} : persona_doc'[v] = persona_doc[v]
               /\ \E io \in IoOutcomes :
                      disk'[u] = ingest_resume_data(_load_profile(disk[u], now), disk[u], merged, now', io).file
      ]_vars

\* C24 witness: an edit has succeeded whose request left keys of the
\* previous document in place, and the unified profile is on disk
C24_Witness ==
    /\ rs.endpoint = "persona" /\ rs.status = 200
    /\ DOMAIN rs.request # DOMAIN persona_doc[rs.user]
    /\ \A k \in DOMAIN rs.request : persona_doc[rs.user][k] = rs.request[k]
    /\ disk[rs.user].kind = "json"

\* the records of a history, in order
IsPrefix(xs, ys) == Len(xs) <= Len(ys) /\ \A k \in 1..Len(xs) : ys[k] = xs[k]

\* C25: an evaluate_answer call whose model call succeeds appends exactly
\* one record holding the question, its type, the answer and the evaluation
\* to session['questions_asked']; one whose model call raises leaves the
\* session as it was; no call on the session removes or reorders records
C25_HistoryAppendOnly ==
    [][/\ (iv'.answers # iv.answers /\ iv'.outcome # "raises") =>
              /\ Len(iv'.session.questions_asked) = Len(iv.session.questions_asked) + 1
              /\ LET rec == iv'.session.questions_asked[Len(iv'.session.questions_asked)]
                 IN  /\ rec.question = iv.handed[Len(iv.handed)].question /\ rec.type = iv.handed[Len(iv.handed)].type
                     /\ rec.answer \in Answers
                     /\ rec.evaluation.overall_score \in 0..100
       /\ (iv'.answers # iv.answers /\ iv'.outcome = "raises") => iv'.session = iv.session
       /\ (iv'.answers = iv.answers /\ iv.pc = "open") => iv'.session.questions_asked = iv.session.questions_asked
       /\ IsPrefix(iv.session.questions_asked, iv'.session.questions_asked)
      ]_vars

\* C25 witness: two answers are in the history, the second call's model
\* reply was not JSON, and a call before them raised or questions were
\* handed out in between
C25_Witness ==
    /\ Len(iv.session.questions_asked) = 2
    /\ iv.session.questions_asked[1] # iv.session.questions_asked[2]
    /\ iv.session.questions_asked[2].evaluation.strengths # <<>>
    /\ iv.lastop = "next"

\* C28: counting the one start_session returned, a session hands out at
\* most 10 questions, and get_next_question returns None from then on
C28_AtMostTenQuestions ==
    /\ Len(iv.handed) <= MaxQuestions
    /\ (iv.nones > 0 /\ iv.lastop = "next") => iv.outcome = "none"

\* C29: the k-th question handed out in a session carries index k, and its
\* type is the one at that place of the rotation through question_types
C29_IndexIncreasesTypesRotate ==
    \A k \in 1..Len(iv.handed) :
        /\ iv.handed[k].index = k
        /\ iv.handed[k].type = iv.session.question_types[((k - 1) % Len(iv.session.question_types)) + 1]

\* C26: two chat requests under different user ids use different cache
\* keys, whatever their messages, and the second is not answered with the
\* response cached for the first
C26_KeysDifferAcrossUsers ==
    (ck.pc = "done" /\ ck.first.user_id # ck.second.user_id) =>
        /\ ~ck.same_key
        /\ ck.cached_response = None

\* C27: on both chat paths the agent name reported to the client is one of
\* the five agent names and is the name of the agent that was run, whatever
\* the supervisor returned
C27_ReportedAgentRan ==
    lb.pc = "done" =>
        /\ lb.reported \in Agents
        /\ lb.reported = lb.ran

\* C30: a POST /resume/tailor answered with success makes the list of
\* GET /resume/sessions one entry longer, leaves every session saved before
\* as it was, also when the previous request was in the same second, and
\* the list is ordered newest first
C30_OneNewSessionPerTailoring ==
    [][(ss'.nt # ss.nt /\ rs'.status = 200) =>
           LET u == rs'.user
               before == list_resume_sessions(ss.files[u])
               after == list_resume_sessions(ss'.files[u])
           IN  /\ Len(after) = Len(before) + 1
               /\ \A ts \in DOMAIN ss.files[u] : ts \in DOMAIN ss'.files[u] /\ ss'.files[u][ts] = ss.files[u][ts]
               /\ \A k \in 1..(Len(after) - 1) : after[k].timestamp > after[k + 1].timestamp
      ]_vars

====
